---- MODULE Spec2Model ----
(***************************************************************************)
(* A model of wiki_scrawler.py: the text normaliser zh_tidy, the section   *)
(* walker html_to_text, the table flattener table_to_lines, the text       *)
(* joiner smart_text, the label repair (fill_labels_if_missing and         *)
(* ensure_labels_after_marker) and the per-document driver process_one.    *)
(*                                                                         *)
(* Text is a sequence of Unicode code points (Python str), so that the     *)
(* character classes of the regular expressions are sets of integers.      *)
(*                                                                         *)
(* What the model leaves out or simplifies:                                *)
(*   - the extraction and download of images; whether a document has image *)
(*     records is an input of the write step;                              *)
(*   - the HTML parser: a document is the tree of the element html_to_text *)
(*     selects as root; a test of a substring of the class attribute is a  *)
(*     test of membership among the classes;                               *)
(*   - the network: a fetch answers any page of Pages with one of two      *)
(*     resolved titles, or fails; a success of fetch_html_action and one   *)
(*     of fetch_html_rest after its failure are the same outcome; the      *)
(*     langlink query of process_one answers the same for every language   *)
(*     code, the one of SpecEnsure answers each lookup on its own;         *)
(*   - unquote decodes UTF-8 without rejecting overlong forms; \d is the   *)
(*     ASCII and the full-width digits.                                    *)
(***************************************************************************)
EXTENDS Integers, Sequences, FiniteSets, TLC

-----------------------------------------------------------------------------
(* Characters.  Ch names the code points the source's literals use.        *)

Ch == [ tab |-> 9, nl |-> 10, sp |-> 32, nbsp |-> 160,
        hash |-> 35, lpar |-> 40, rpar |-> 41, comma |-> 44, dot |-> 46,
        colon |-> 58, semi |-> 59, bang |-> 33, quest |-> 63,
        lbrk |-> 91, bsl |-> 92, rbrk |-> 93, caret |-> 94, under |-> 95,
        lbrace |-> 123, bar |-> 124, rbrace |-> 125,
        dash |-> 8212,      \* —
        bullet |-> 8226,    \* •
        fcomma |-> 65292,   \* ，
        fstop |-> 12290,    \* 。
        dun |-> 12289,      \* 、
        fsemi |-> 65307,    \* ；
        fcolon |-> 65306,   \* ：
        fbang |-> 65281,    \* ！
        fquest |-> 65311,   \* ？
        lbook |-> 12298, rbook |-> 12299,     \* 《 》
        labook |-> 12296, rabook |-> 12297,   \* 〈 〉
        lquo |-> 12300, rquo |-> 12301,       \* 「 」
        ldquo |-> 12302, rdquo |-> 12303,     \* 『 』
        flpar |-> 65288, frpar |-> 65289,     \* （ ）
        nian |-> 24180, yue |-> 26376, ri |-> 26085   \* 年 月 日
      ]

\* \s of a str pattern, which is also the set str.strip() removes
WS == {9, 10, 11, 12, 13, 28, 29, 30, 31, 32, 133, 160, 5760} \cup (8192..8202)
        \cup {8232, 8233, 8239, 8287, 12288}

\* [a-zA-Z]
Alpha == (65..90) \cup (97..122)

\* \d : the ASCII digits and the full-width digits
Digit == (48..57) \cup (65296..65305)

\* [一-鿿㐀-䶿]
CJK == (19968..40959) \cup (13312..19903)

\* str.isascii() of one character
IsAscii(c) == c < 128

\* y, with x evaluated first: an argument is evaluated where the source
\* evaluates it, before the call
Eager(x, y) == IF x = x THEN y ELSE y

-----------------------------------------------------------------------------
(* Regular expressions, with the backtracking order of Python's re.        *)
(* A pattern is a tree; M(r, s, i) is the sequence of ways r matches s     *)
(* starting at index i, in the order the backtracking matcher tries them;  *)
(* each way is [e |-> index after the match, c |-> the groups captured].   *)

Cs(S) == [t |-> "set", cs |-> S]                \* [...]
Nc(S) == [t |-> "nset", cs |-> S]               \* [^...]
Cat(rs) == [t |-> "cat", rs |-> rs]             \* r1 r2 ...
Alt(rs) == [t |-> "alt", rs |-> rs]             \* r1 | r2 | ...
Rep(r, lo, hi, greedy) == [t |-> "rep", r |-> r, lo |-> lo, hi |-> hi, g |-> greedy]
Star(r) == Rep(r, 0, -1, TRUE)                  \* r*
Plus(r) == Rep(r, 1, -1, TRUE)                  \* r+
Lazy(r) == Rep(r, 0, -1, FALSE)                 \* r*?
Grp(r) == [t |-> "grp", r |-> r]                \* (r)
La(r) == [t |-> "la", r |-> r]                  \* (?=r)
Lb(S) == [t |-> "lb", cs |-> S]                 \* (?<=[...])
Eos == [t |-> "eos"]                            \* $
Lit(w) == Cat([k \in 1..Len(w) |-> Cs({w[k]})]) \* a literal string
Dot == Nc({10})                                 \* . without re.S
DotAll == Nc({})                                \* . with re.S

Glue(p, qs) == [n \in 1..Len(qs) |-> [e |-> qs[n].e, c |-> p.c \o qs[n].c]]

RECURSIVE M(_, _, _)
RECURSIVE MExt(_, _, _, _)
RECURSIVE MCat(_, _, _, _)
RECURSIVE MAlt(_, _, _, _)
RECURSIVE MRep(_, _, _, _)
RECURSIVE MRepExt(_, _, _, _, _, _)

\* the ways of a repetition in priority order: a greedy one prefers to
\* iterate, a lazy one prefers to stop
MRepOrder(greedy, more, here) == IF greedy THEN more \o here ELSE here \o more

\* the ways of a group: each way of its body, with the text it matched
MGrp(s, i, inner) ==
    [n \in 1..Len(inner) |->
        [e |-> inner[n].e, c |-> <<SubSeq(s, i, inner[n].e - 1)>> \o inner[n].c]]

\* every way of acc[j..], each continued by r
MExt(r, s, acc, j) ==
    IF j > Len(acc) THEN <<>>
    ELSE Glue(acc[j], M(r, s, acc[j].e)) \o MExt(r, s, acc, j + 1)

MCat(rs, k, s, acc) ==
    IF k > Len(rs) \/ acc = <<>> THEN acc
    ELSE MCat(rs, k + 1, s, MExt(rs[k], s, acc, 1))

MAlt(rs, k, s, i) ==
    IF k > Len(rs) THEN <<>>
    ELSE M(rs[k], s, i) \o MAlt(rs, k + 1, s, i)

\* the iterations of a repetition that start with one of first[j..]
MRepExt(r, s, i, n, first, j) ==
    IF j > Len(first) THEN <<>>
    ELSE (IF first[j].e > i
             THEN Glue(first[j], MRep(r, s, first[j].e, n + 1))
             ELSE <<>>)
         \o MRepExt(r, s, i, n, first, j + 1)

\* r.r repeated, n iterations done so far
MRep(r, s, i, n) ==
    MRepOrder(r.g,
              IF r.hi >= 0 /\ n >= r.hi THEN <<>>
              ELSE MRepExt(r, s, i, n, M(r.r, s, i), 1),
              IF n >= r.lo THEN <<[e |-> i, c |-> <<>>]>> ELSE <<>>)

M(r, s, i) ==
    CASE r.t = "set"  -> IF i <= Len(s) /\ s[i] \in r.cs
                            THEN <<[e |-> i + 1, c |-> <<>>]>> ELSE <<>>
      [] r.t = "nset" -> IF i <= Len(s) /\ s[i] \notin r.cs
                            THEN <<[e |-> i + 1, c |-> <<>>]>> ELSE <<>>
      [] r.t = "cat"  -> MCat(r.rs, 1, s, <<[e |-> i, c |-> <<>>]>>)
      [] r.t = "alt"  -> MAlt(r.rs, 1, s, i)
      [] r.t = "rep"  -> MRep(r, s, i, 0)
      [] r.t = "grp"  -> MGrp(s, i, M(r.r, s, i))
      [] r.t = "la"   -> IF M(r.r, s, i) # <<>>
                            THEN <<[e |-> i, c |-> <<>>]>> ELSE <<>>
      [] r.t = "lb"   -> IF i > 1 /\ s[i - 1] \in r.cs
                            THEN <<[e |-> i, c |-> <<>>]>> ELSE <<>>
      [] r.t = "eos"  -> IF i = Len(s) + 1 \/ (i = Len(s) /\ s[i] = 10)
                            THEN <<[e |-> i, c |-> <<>>]>> ELSE <<>>

\* re.search from index `from`: the leftmost start, its first way
RECURSIVE Search(_, _, _)
RECURSIVE SearchAt(_, _, _, _)
SearchAt(r, s, from, ms) ==
    IF ms # <<>>
       THEN [found |-> TRUE, st |-> from, e |-> ms[1].e, c |-> ms[1].c]
       ELSE Search(r, s, from + 1)

Search(r, s, from) ==
    IF from > Len(s) + 1 THEN [found |-> FALSE]
    ELSE SearchAt(r, s, from, M(r, s, from))

\* a replacement template: a code point, or -k for the group \k
RECURSIVE Expand(_, _)
Expand(repl, c) ==
    IF repl = <<>> THEN <<>>
    ELSE (IF Head(repl) < 0 THEN c[-Head(repl)] ELSE <<Head(repl)>>)
         \o Expand(Tail(repl), c)

\* re.sub(r, repl, s): the non-overlapping matches, left to right
RECURSIVE SubFrom(_, _, _, _)
RECURSIVE SubAt(_, _, _, _, _)
\* the text from pos on, m being the next match
SubAt(r, repl, s, pos, m) ==
    IF ~m.found THEN SubSeq(s, pos, Len(s))
    ELSE SubSeq(s, pos, m.st - 1) \o Expand(repl, m.c) \o
         (IF m.e > m.st THEN SubFrom(r, repl, s, m.e)
          ELSE IF m.st > Len(s) THEN <<>>
          ELSE <<s[m.st]>> \o SubFrom(r, repl, s, m.st + 1))

SubFrom(r, repl, s, pos) == SubAt(r, repl, s, pos, Search(r, s, pos))

Sub(r, repl, s) == Eager(s, SubFrom(r, repl, s, 1))

-----------------------------------------------------------------------------
(* str helpers                                                             *)

RECURSIVE LStrip(_)
LStrip(s) == IF s # <<>> /\ Head(s) \in WS THEN LStrip(Tail(s)) ELSE s

RECURSIVE RStrip(_)
RStrip(s) ==
    IF s # <<>> /\ s[Len(s)] \in WS THEN RStrip(SubSeq(s, 1, Len(s) - 1)) ELSE s

\* s.strip()
Strip(s) == RStrip(LStrip(s))

\* s.split(sep) for a one-character sep
RECURSIVE Split(_, _)
Split(s, sep) ==
    IF \A k \in 1..Len(s) : s[k] # sep THEN <<s>>
    ELSE LET k == CHOOSE k \in 1..Len(s) :
                      s[k] = sep /\ \A j \in 1..(k - 1) : s[j] # sep
         IN  <<SubSeq(s, 1, k - 1)>> \o Split(SubSeq(s, k + 1, Len(s)), sep)

\* sep.join(ls)
RECURSIVE Join(_, _)
Join(ls, sep) ==
    IF ls = <<>> THEN <<>>
    ELSE IF Len(ls) = 1 THEN ls[1]
    ELSE ls[1] \o sep \o Join(Tail(ls), sep)

\* any(ch in s for ch in S)
HasAny(s, S) == \E k \in 1..Len(s) : s[k] \in S

-----------------------------------------------------------------------------
(* zh_tidy, one definition per numbered step of the source                 *)

\* step 0: runs of blanks become one space
tidy_blanks(text) == Sub(Plus(Cs({32, 9, 160})), <<32>>, text)

\* step 0.5: LaTeX residue
tidy_latex(text) ==
    LET braces == {123, 125}
        \* \{\\displaystyle[^{}]*(?:\{[^{}]*\}[^{}]*)*\}
        r1 == Cat(<<Lit(<<123, 92, 100, 105, 115, 112, 108, 97, 121, 115, 116, 121, 108, 101>>),
                    Star(Nc(braces)),
                    Star(Cat(<<Cs({123}), Star(Nc(braces)), Cs({125}), Star(Nc(braces))>>)),
                    Cs({125})>>)
        \* \{\\[a-zA-Z]+[^}]*\}
        r2 == Cat(<<Cs({123}), Cs({92}), Plus(Cs(Alpha)), Star(Nc({125})), Cs({125})>>)
        \* \{\\displaystyle.*?(?=\n|$)
        r3 == Cat(<<Lit(<<123, 92, 100, 105, 115, 112, 108, 97, 121, 115, 116, 121, 108, 101>>),
                    Lazy(Dot), La(Alt(<<Cs({10}), Eos>>))>>)
        \* \\begin\{[^}]+\}.*?\\end\{[^}]+\}   (re.DOTALL)
        r4 == Cat(<<Lit(<<92, 98, 101, 103, 105, 110, 123>>), Plus(Nc({125})), Cs({125}),
                    Lazy(DotAll),
                    Lit(<<92, 101, 110, 100, 123>>), Plus(Nc({125})), Cs({125})>>)
        \* \\[a-zA-Z]+\{[^}]*\}
        r5 == Cat(<<Cs({92}), Plus(Cs(Alpha)), Cs({123}), Star(Nc({125})), Cs({125})>>)
        \* \\[a-zA-Z]+
        r6 == Cat(<<Cs({92}), Plus(Cs(Alpha))>>)
        \* \{[^{}]*\}
        r7 == Cat(<<Cs({123}), Star(Nc(braces)), Cs({125})>>)
        \* [{}\\^_]+
        r8 == Plus(Cs({123, 125, 92, 94, 95}))
    IN  Sub(r8, <<>>, Sub(r7, <<>>, Sub(r6, <<>>, Sub(r5, <<>>,
        Sub(r4, <<>>, Sub(r3, <<>>, Sub(r2, <<>>, Sub(r1, <<>>, text))))))))

\* step 1: l\s*(.*?)\s*r  ->  l\1r   (re.S), for each pair in turn
tidy_pair(l, r, text) ==
    Sub(Cat(<<Cs({l}), Star(Cs(WS)), Grp(Lazy(DotAll)), Star(Cs(WS)), Cs({r})>>),
        <<l, -1, r>>, text)

tidy_pairs(text) ==
    tidy_pair(Ch.flpar, Ch.frpar,
    tidy_pair(Ch.ldquo, Ch.rdquo,
    tidy_pair(Ch.lquo, Ch.rquo,
    tidy_pair(Ch.labook, Ch.rabook,
    tidy_pair(Ch.lbook, Ch.rbook, text)))))

\* step 2: \s+([，。、；：！？》）」』])  ->  \1
tidy_punct(text) ==
    Sub(Cat(<<Plus(Cs(WS)),
              Grp(Cs({Ch.fcomma, Ch.fstop, Ch.dun, Ch.fsemi, Ch.fcolon, Ch.fbang,
                      Ch.fquest, Ch.rbook, Ch.frpar, Ch.rquo, Ch.rdquo}))>>),
        <<-1>>, text)

\* step 3: year/month/day, then year/month
tidy_dates(text) ==
    LET sp == Star(Cs(WS))
        ymd == Cat(<<Grp(Rep(Cs(Digit), 1, 4, TRUE)), sp, Cs({Ch.nian}), sp,
                     Grp(Rep(Cs(Digit), 1, 2, TRUE)), sp, Cs({Ch.yue}), sp,
                     Grp(Rep(Cs(Digit), 1, 2, TRUE)), sp, Cs({Ch.ri})>>)
        ym  == Cat(<<Grp(Rep(Cs(Digit), 1, 4, TRUE)), sp, Cs({Ch.nian}), sp,
                     Grp(Rep(Cs(Digit), 1, 2, TRUE)), sp, Cs({Ch.yue})>>)
    IN  Sub(ym, <<-1, Ch.nian, -2, Ch.yue>>,
            Sub(ymd, <<-1, Ch.nian, -2, Ch.yue, -3, Ch.ri>>, text))

\* step 4: \s*——\s* -> —— , then \s*—\s* -> —
tidy_dashes(text) ==
    LET sp == Star(Cs(WS))
    IN  Sub(Cat(<<sp, Cs({Ch.dash}), sp>>), <<Ch.dash>>,
            Sub(Cat(<<sp, Cs({Ch.dash}), Cs({Ch.dash}), sp>>), <<Ch.dash, Ch.dash>>, text))

\* a heading-like line is left alone (src line 305)
ShortLineLen == 30

\* step 5, the loop body: one line of text.split('\n')
TidyStripped(line, stripped) ==
    IF stripped # <<>> /\ Len(stripped) < ShortLineLen
         /\ ~HasAny(stripped, {Ch.fstop, Ch.fcomma, Ch.fbang, Ch.fquest})
       THEN line
    ELSE IF stripped # <<>>
       THEN Sub(Cat(<<Lb(CJK), Plus(Cs({32, 9, 160})), La(Cs(CJK))>>), <<>>, stripped)
    ELSE line

tidy_line(line) == TidyStripped(line, Strip(line))

tidy_lines(lines) == [i \in 1..Len(lines) |-> tidy_line(lines[i])]

\* step 5: blanks between CJK characters, line by line; blanks around 、
tidy_cjk(text) ==
    Sub(Cat(<<Star(Cs(WS)), Cs({Ch.dun}), Star(Cs(WS))>>), <<Ch.dun>>,
        Join(tidy_lines(Split(text, 10)), <<10>>))

\* a step 6 that keeps three newlines: \n{4,} -> \n\n\n
tidy_newlines_three(text) == Sub(Rep(Cs({10}), 4, -1, TRUE), <<10, 10, 10>>, text)

\* step 6: \n{3,} -> \n\n
tidy_newlines(text) == Sub(Rep(Cs({10}), 3, -1, TRUE), <<10, 10>>, text)

zh_tidy(text) ==
    Eager(text, tidy_newlines(tidy_cjk(tidy_dashes(tidy_dates(tidy_punct(tidy_pairs(
                    tidy_latex(tidy_blanks(text)))))))))

-----------------------------------------------------------------------------
(* The document tree (BeautifulSoup).  A node is a record                  *)
(*   tag  : the element name, or "#text" for a NavigableString             *)
(*   cls  : the set of its class names                                     *)
(*   at   : its colspan and rowspan attributes, each NoAttr when absent or *)
(*          not a number, else Attr(v) for the integer v                   *)
(*   s    : the string of a text node                                      *)
(*   kids : the sequence of its children                                   *)

NoAttr == [some |-> FALSE, v |-> 0]
Attr(v) == [some |-> TRUE, v |-> v]

Txt(s) == [tag |-> "#text", cls |-> {}, at |-> <<NoAttr, NoAttr>>, s |-> s, kids |-> <<>>]
El(tag, kids) == [tag |-> tag, cls |-> {}, at |-> <<NoAttr, NoAttr>>, s |-> <<>>, kids |-> kids]
ElC(tag, cls, kids) == [tag |-> tag, cls |-> cls, at |-> <<NoAttr, NoAttr>>, s |-> <<>>, kids |-> kids]
Cell(tag, colspan, rowspan, kids) ==
    [tag |-> tag, cls |-> {}, at |-> <<colspan, rowspan>>, s |-> <<>>, kids |-> kids]

\* node.find_all(tags, recursive=False)
RECURSIVE Direct(_, _)
Direct(kids, tags) ==
    IF kids = <<>> THEN <<>>
    ELSE (IF Head(kids).tag \in tags THEN <<Head(kids)>> ELSE <<>>) \o Direct(Tail(kids), tags)

\* the number of nodes of a subtree
RECURSIVE Size(_)
RECURSIVE SizeAll(_)
SizeAll(kids) == IF kids = <<>> THEN 0 ELSE Size(Head(kids)) + SizeAll(Tail(kids))
Size(n) == 1 + SizeAll(n.kids)

\* the nodes below a node in document order (node.descendants)
RECURSIVE Preorder(_)
Preorder(kids) ==
    IF kids = <<>> THEN <<>>
    ELSE <<Head(kids)>> \o Preorder(Head(kids).kids) \o Preorder(Tail(kids))

\* node.find_all(tags): the descendants in document order, each with the
\* chain `anc` of its ancestors (outermost first) for find_parent, and its
\* index `pos` in Preorder, `base` nodes coming before kids
RECURSIVE FindAllAt(_, _, _, _)
FindAllAt(kids, tags, anc, base) ==
    IF kids = <<>> THEN <<>>
    ELSE LET k == Head(kids)
         IN  (IF k.tag \in tags THEN <<[n |-> k, anc |-> anc, pos |-> base + 1]>> ELSE <<>>)
             \o FindAllAt(k.kids, tags, Append(anc, [tag |-> k.tag, cls |-> k.cls]), base + 1)
             \o FindAllAt(Tail(kids), tags, anc, base + Size(k))

FindAll(kids, tags, anc) == FindAllAt(kids, tags, anc, 0)

\* el.find_parent(tag) is not None
HasParent(anc, tag) == \E k \in 1..Len(anc) : anc[k].tag = tag

\* el.find_parent(tag, class_=c) is not None
HasParentC(anc, tag, c) == \E k \in 1..Len(anc) : anc[k].tag = tag /\ c \in anc[k].cls

\* str(i) for i >= 0
RECURSIVE IntToStr(_)
IntToStr(i) == IF i < 10 THEN <<48 + i>> ELSE IntToStr(i \div 10) \o <<48 + (i % 10)>>

-----------------------------------------------------------------------------
(* smart_text and the list renderers                                       *)

\* the accumulator of the text-joining loops: text_parts (joined) and last_ascii
NoParts == [parts |-> <<>>, last_ascii |-> FALSE]

\* append a non-empty fragment s, with a space at an ASCII/ASCII boundary
AddFragment(acc, s) ==
    LET cur_ascii == IsAscii(s[1])
    IN  [parts |-> acc.parts
                   \o (IF acc.parts # <<>> /\ acc.last_ascii /\ cur_ascii THEN <<32>> ELSE <<>>)
                   \o s,
         last_ascii |-> IsAscii(s[Len(s)])]

\* a <br>
AddBreak(acc) == [parts |-> acc.parts \o <<32>>, last_ascii |-> FALSE]

\* extract_text_from_li: the loop over li_tag.descendants; `nested` says that
\* the nearest enclosing <li> of the nodes visited is not li_tag itself
RECURSIVE LiWalk(_, _, _)
\* a fragment joined when it is not empty
AddText(acc, s) == IF s = <<>> THEN acc ELSE AddFragment(acc, s)

\* the descendant d itself
LiNode(d, nested, acc) ==
    IF d.tag = "#text" THEN (IF nested THEN acc ELSE AddText(acc, Strip(d.s)))
    ELSE IF d.tag = "br" THEN AddBreak(acc)
    ELSE acc

LiWalk(kids, nested, acc) ==
    IF kids = <<>> THEN acc
    ELSE Eager(acc, LiWalk(Tail(kids), nested,
                           LiWalk(Head(kids).kids, nested \/ Head(kids).tag = "li",
                                  LiNode(Head(kids), nested, acc))))

extract_text_from_li(li_tag) == LiWalk(li_tag.kids, FALSE, NoParts).parts

\* the items of a list, each prefixed, joined by one space
RECURSIVE ListItems(_, _, _)
\* `if li_text: items.append(f"{i}. {li_text}")`, or "• " for a <ul>
ListItem(li_text, i, ordered) ==
    IF li_text = <<>> THEN <<>>
    ELSE <<(IF ordered THEN IntToStr(i) \o <<46, 32>> ELSE <<8226, 32>>) \o li_text>>

ListItems(lis, i, ordered) ==
    IF i > Len(lis) THEN <<>>
    ELSE ListItem(extract_text_from_li(lis[i]), i, ordered) \o ListItems(lis, i + 1, ordered)

process_ordered_list(ol_tag) ==
    Join(ListItems(Direct(ol_tag.kids, {"li"}), 1, TRUE), <<32>>)

process_unordered_list(ul_tag) ==
    Join(ListItems(Direct(ul_tag.kids, {"li"}), 1, FALSE), <<32>>)

RECURSIVE smart_text(_)
RECURSIVE SmartKids(_, _)
RECURSIVE SmartKid(_, _)

\* the loop of smart_text over node.children
\* `if list_content: parts.append(list_content); last_ascii = False`
AddList(acc, list_content) ==
    IF list_content # <<>> THEN [parts |-> acc.parts \o list_content, last_ascii |-> FALSE]
    ELSE acc

\* one child of the node
SmartKid(child, acc) ==
    IF child.tag = "#text" THEN AddText(acc, Strip(child.s))
    ELSE IF child.tag \in {"ol", "ul"} THEN AddList(acc, smart_text(child))
    ELSE IF child.tag = "br" THEN AddBreak(acc)
    ELSE AddText(acc, smart_text(child))

SmartKids(kids, acc) ==
    IF kids = <<>> THEN acc
    ELSE Eager(acc, SmartKids(Tail(kids), SmartKid(Head(kids), acc)))

smart_text(node) ==
    IF node.tag = "ol" THEN process_ordered_list(node)
    ELSE IF node.tag = "ul" THEN process_unordered_list(node)
    ELSE SmartKids(node.kids, NoParts).parts

-----------------------------------------------------------------------------
(* table_to_lines                                                          *)

\* squeeze of html_to_text: re.sub(r"[ \t ]+", " ", s.strip())
squeeze(s) == Sub(Plus(Cs({32, 9, 160})), <<32>>, Strip(s))

\* table_squeeze: newlines become spaces first
table_squeeze(s) == squeeze([k \in 1..Len(s) |-> IF s[k] = 10 THEN 32 ELSE s[k]])

\* _parse_int(value, 1): max(int(value), 1), or 1 when the attribute is
\* absent or not a number
parse_int(value) == IF value.some /\ value.v > 1 THEN value.v ELSE 1

\* an entry of current_row (None or a string) and of row_spans (None or a dict)
None == [some |-> FALSE, v |-> <<>>]
Val(v) == [some |-> TRUE, v |-> v]
NoSpan == [some |-> FALSE, rows_left |-> 0, value |-> <<>>]
Span(n, v) == [some |-> TRUE, rows_left |-> n, value |-> v]

\* "apply active rowspans to this row": the new current_row
ApplySpansRow(row_spans) ==
    [idx \in 1..Len(row_spans) |->
        IF row_spans[idx].some THEN Val(row_spans[idx].value) ELSE None]

\* "apply active rowspans to this row": row_spans afterwards
ApplySpansLeft(row_spans) ==
    [idx \in 1..Len(row_spans) |->
        IF row_spans[idx].some /\ row_spans[idx].rows_left - 1 # 0
           THEN Span(row_spans[idx].rows_left - 1, row_spans[idx].value)
           ELSE NoSpan]

\* a search that takes the column after the last one of the row
FindSlotEnd(current_row, col_idx, colspan) == Len(current_row) + 1

\* the `while True` search: the first col_idx (1-based here) at or after
\* col_idx such that none of the colspan columns from it is taken
RECURSIVE FindSlot(_, _, _)
FindSlot(current_row, col_idx, colspan) ==
    LET taken == {pos \in col_idx..(col_idx + colspan - 1) :
                     pos <= Len(current_row) /\ current_row[pos].some}
    IN  IF taken = {} THEN col_idx
        ELSE FindSlot(current_row,
                      (CHOOSE pos \in taken : \A q \in taken : pos <= q) + 1, colspan)

\* the buffers extended with None up to length n
PadRow(current_row, n) ==
    [k \in 1..(IF n > Len(current_row) THEN n ELSE Len(current_row)) |->
        IF k <= Len(current_row) THEN current_row[k] ELSE None]

PadSpans(row_spans, n) ==
    [k \in 1..(IF n > Len(row_spans) THEN n ELSE Len(row_spans)) |->
        IF k <= Len(row_spans) THEN row_spans[k] ELSE NoSpan]

\* the placement with the text in every column of the colspan
PlaceAtFilled(row, spans, cell_text, rowspan, col_idx, last) ==
    [current_row |->
        [pos \in 1..Len(row) |-> IF pos \in col_idx..last THEN Val(cell_text) ELSE row[pos]],
     row_spans |->
        [pos \in 1..Len(spans) |->
            IF pos \in col_idx..last
               THEN IF rowspan > 1 THEN Span(rowspan - 1, cell_text) ELSE NoSpan
               ELSE spans[pos]]]

\* the placement with rows_left = rowspan
PlaceAtLong(row, spans, cell_text, rowspan, col_idx, last) ==
    [current_row |->
        [pos \in 1..Len(row) |->
            IF pos \in col_idx..last
               THEN Val(IF pos = col_idx THEN cell_text ELSE <<>>)
               ELSE row[pos]],
     row_spans |->
        [pos \in 1..Len(spans) |->
            IF pos \in col_idx..last
               THEN IF rowspan > 1
                       THEN Span(rowspan, IF pos = col_idx THEN cell_text ELSE <<>>)
                       ELSE NoSpan
               ELSE spans[pos]]]

\* one iteration of `for cell in cells`; st = [current_row, row_spans]
\* the cell written at columns col_idx..last of the padded buffers
PlaceAt(row, spans, cell_text, rowspan, col_idx, last) ==
    [current_row |->
        [pos \in 1..Len(row) |->
            IF pos \in col_idx..last
               THEN Val(IF pos = col_idx THEN cell_text ELSE <<>>)
               ELSE row[pos]],
     row_spans |->
        [pos \in 1..Len(spans) |->
            IF pos \in col_idx..last
               THEN IF rowspan > 1
                       THEN Span(rowspan - 1, IF pos = col_idx THEN cell_text ELSE <<>>)
                       ELSE NoSpan
               ELSE spans[pos]]]

PlaceFrom(st, cell_text, colspan, rowspan, col_idx) ==
    PlaceAt(PadRow(st.current_row, col_idx + colspan - 1),
            PadSpans(st.row_spans, col_idx + colspan - 1),
            cell_text, rowspan, col_idx, col_idx + colspan - 1)

PlaceCell(st, cell) ==
    PlaceFrom(st, table_squeeze(smart_text(cell)), parse_int(cell.at[1]), parse_int(cell.at[2]),
              FindSlot(st.current_row, 1, parse_int(cell.at[1])))

RECURSIVE PlaceCells(_, _)
PlaceCells(st, cells) ==
    IF cells = <<>> THEN st ELSE Eager(st, PlaceCells(PlaceCell(st, Head(cells)), Tail(cells)))

\* a row that keeps its blank columns at the end
PopBlankNone(cleaned) == cleaned

\* `while cleaned and not cleaned[-1].strip(): cleaned.pop()`
RECURSIVE PopBlank(_)
PopBlank(cleaned) ==
    IF cleaned # <<>> /\ Strip(cleaned[Len(cleaned)]) = <<>>
       THEN PopBlank(SubSeq(cleaned, 1, Len(cleaned) - 1))
       ELSE cleaned

\* one iteration of `for tr in table.find_all("tr")` for a direct row;
\* st = [row_spans, rows]
\* `cleaned = [(c or "") for c in current_row]`, trailing blanks popped
Cleaned(current_row) == PopBlank([k \in 1..Len(current_row) |-> current_row[k].v])

\* `if any(c.strip() for c in cleaned): rows.append(cleaned)`
KeepRow(rows, cleaned) ==
    IF \E k \in 1..Len(cleaned) : Strip(cleaned[k]) # <<>> THEN Append(rows, cleaned) ELSE rows

RowDone(st, placed) ==
    [row_spans |-> placed.row_spans, rows |-> KeepRow(st.rows, Cleaned(placed.current_row))]

TableRow(st, tr) ==
    RowDone(st, PlaceCells([current_row |-> ApplySpansRow(st.row_spans),
                            row_spans |-> ApplySpansLeft(st.row_spans)],
                           Direct(tr.kids, {"th", "td"})))

\* the rows of the table itself: tr.find_parent("table") is table
DirectRows(table) ==
    LET all == FindAll(table.kids, {"tr"}, <<>>)
        idx == {k \in 1..Len(all) : ~HasParent(all[k].anc, "table")}
        RECURSIVE Pick(_)
        Pick(k) == IF k > Len(all) THEN <<>>
                   ELSE (IF k \in idx THEN <<all[k].n>> ELSE <<>>) \o Pick(k + 1)
    IN  Pick(1)

RECURSIVE TableRows(_, _)
TableRows(st, trs) ==
    IF trs = <<>> THEN st ELSE Eager(st, TableRows(TableRow(st, Head(trs)), Tail(trs)))

\* the optional caption line
\* a line when it is not empty
Line(s) == IF s # <<>> THEN <<s>> ELSE <<>>

CaptionOf(caps) == IF caps # <<>> THEN Line(squeeze(smart_text(caps[1].n))) ELSE <<>>

CaptionLines(table) == CaptionOf(FindAll(table.kids, {"caption"}, <<>>))

\* `for row in rows`: "• " + " | ".join(row), blank lines dropped
RECURSIVE RowLines(_)
RowLine(line) == IF Strip(line) # <<>> THEN <<(<<8226, 32>> \o line)>> ELSE <<>>

RowLines(rows) ==
    IF rows = <<>> THEN <<>>
    ELSE RowLine(Join(Head(rows), <<32, 124, 32>>)) \o RowLines(Tail(rows))

table_to_lines(table) ==
    CaptionLines(table)
      \o RowLines(TableRows([row_spans |-> <<>>, rows |-> <<>>], DirectRows(table)).rows)

-----------------------------------------------------------------------------
(* The post-processing passes of html_to_text                              *)

\* s.replace(old, new)
Replace(s, old, new) == Sub(Lit(old), new, s)

\* s.startswith(w)
StartsWith(s, w) == Len(s) >= Len(w) /\ SubSeq(s, 1, Len(w)) = w

\* w in s
Contains(s, w) == \E i \in 1..(Len(s) - Len(w) + 1) : SubSeq(s, i, i + Len(w) - 1) = w

\* title.replace("###", "").replace("##", "").strip()
HeadingKey(s) == Strip(Replace(Replace(s, <<35, 35, 35>>, <<>>), <<35, 35>>, <<>>))

\* the loop of remove_duplicate_headings; st = [result_lines, last_heading],
\* last_heading = [some, v] for None or a string
RECURSIVE DupLoop(_, _)
DupLine(st, line, stripped, normalized) ==
    IF StartsWith(stripped, <<35, 35, 35>>) \/ StartsWith(stripped, <<35, 35>>)
       THEN IF Val(normalized) # st.last_heading
               THEN [result_lines |-> Append(st.result_lines, line),
                     last_heading |-> Val(normalized)]
               ELSE st
       ELSE [result_lines |-> Append(st.result_lines, line),
             last_heading |-> IF stripped # <<>> THEN None ELSE st.last_heading]

DupLoop(st, lines) ==
    IF lines = <<>> THEN st
    ELSE Eager(st, DupLoop(DupLine(st, Head(lines), Strip(Head(lines)),
                                   HeadingKey(Strip(Head(lines)))),
                           Tail(lines)))

remove_duplicate_headings(text) ==
    Join(DupLoop([result_lines |-> <<>>, last_heading |-> None], Split(text, 10)).result_lines,
         <<10>>)

\* title_pairs of separate_concatenated_titles
title_pairs == <<
        \* 影音作品 / 其他音樂錄影帶
        <<<<24433, 38899, 20316, 21697>>,
          <<20854, 20182, 38899, 27138, 37636, 24433, 24118>>>>,
        \* 個人生活 / 感情狀況
        <<<<20491, 20154, 29983, 27963>>,
          <<24863, 24773, 29376, 27841>>>>,
        \* 演藝經歷 / 音樂作品
        <<<<28436, 34269, 32147, 27511>>,
          <<38899, 27138, 20316, 21697>>>>,
        \* 作品列表 / 音樂作品
        <<<<20316, 21697, 21015, 34920>>,
          <<38899, 27138, 20316, 21697>>>>,
        \* 獲獎記錄 / 個人榮譽
        <<<<29554, 29518, 35352, 37636>>,
          <<20491, 20154, 27054, 35709>>>>
    >>

RECURSIVE SeparateFrom(_, _)
SeparateFrom(text, k) ==
    IF k > Len(title_pairs) THEN text
    ELSE Eager(text, SeparateFrom(Replace(text, title_pairs[k][1] \o title_pairs[k][2],
                                          title_pairs[k][1] \o <<10, 10>> \o title_pairs[k][2]),
                                  k + 1))

separate_concatenated_titles(text) == SeparateFrom(text, 1)

remove_archive_links(text) ==
    LET sp == Star(Cs(WS))
        \* 頁面存檔備份
        a1 == <<38913, 38754, 23384, 27284, 20633, 20221>>
        \* 存於
        a2 == <<23384, 26044>>
        \* 網際網路檔案館
        a3 == <<32178, 38555, 32178, 36335, 27284, 26696, 39208>>
        \* （...） and (...), then the same with \s* between the words
        p1 == Cat(<<Cs({65288}), Lit(a1), Cs({65292}), Lit(a2 \o a3), Cs({65289})>>)
        p2 == Cat(<<Cs({40}), Lit(a1), Cs({65292}), Lit(a2 \o a3), Cs({41})>>)
        p3 == Cat(<<Cs({65288}), sp, Lit(a1), sp, Cs({65292}), sp, Lit(a2), sp, Lit(a3), sp,
                    Cs({65289})>>)
        p4 == Cat(<<Cs({40}), sp, Lit(a1), sp, Cs({65292}), sp, Lit(a2), sp, Lit(a3), sp,
                    Cs({41})>>)
    IN  \* " +" -> " "
        Sub(Plus(Cs({32})), <<32>>,
        \* \n\s*\n\s*\n -> \n\n
        Sub(Cat(<<Cs({10}), sp, Cs({10}), sp, Cs({10})>>), <<10, 10>>,
        Sub(p4, <<>>, Sub(p3, <<>>, Sub(p2, <<>>, Sub(p1, <<>>, text))))))

-----------------------------------------------------------------------------
(* process_multicol_table                                                  *)

\* lines.append(title), after a blank line when the last line is not blank
AddSubtitle(lines, title) ==
    (IF lines # <<>> /\ lines[Len(lines)] # <<>> THEN Append(lines, <<>>) ELSE lines)
        \o <<title>>

\* `for dt in element.find_all("dt")`
RECURSIVE McDts(_, _)
McDt(lines, title) ==
    IF title # <<>> THEN AddSubtitle(lines, <<35, 35, 35, 32>> \o title) ELSE lines

McDts(lines, dts) ==
    IF dts = <<>> THEN lines
    ELSE McDts(McDt(lines, squeeze(smart_text(Head(dts).n))), Tail(dts))

\* `for li in element.find_all("li", recursive=False)` (ul and ol alike)
RECURSIVE McItems(_, _)
McItem(lines, item) == IF item # <<>> THEN Append(lines, <<8226, 32>> \o item) ELSE lines

McItems(lines, lis) ==
    IF lis = <<>> THEN lines
    ELSE McItems(McItem(lines, squeeze(smart_text(Head(lis)))), Tail(lis))

\* `for element in td.find_all([...])`
RECURSIVE McElements(_, _)
McHeading(lines, title) == IF title # <<>> THEN AddSubtitle(lines, title) ELSE lines

McElement(lines, element) ==
    IF element.tag \in {"h3", "h4", "h5", "h6"}
       THEN McHeading(lines, squeeze(smart_text(element)))
    ELSE IF element.tag = "dl"
       THEN McDts(lines, FindAll(element.kids, {"dt"}, <<>>))
    ELSE McItems(lines, Direct(element.kids, {"li"}))

McElements(lines, els) ==
    IF els = <<>> THEN lines
    ELSE Eager(lines, McElements(McElement(lines, Head(els).n), Tail(els)))

\* `for td in table.find_all("td")`
RECURSIVE McCells(_, _)
McCells(lines, tds) ==
    IF tds = <<>> THEN lines
    ELSE McCells(McElements(lines,
                            FindAll(Head(tds).n.kids,
                                    {"h3", "h4", "h5", "h6", "dl", "ul", "ol"}, <<>>)),
                 Tail(tds))

process_multicol_table(table) == McCells(<<>>, FindAll(table.kids, {"td"}, <<>>))

-----------------------------------------------------------------------------
(* html_to_text: noise removal                                             *)

\* the selectors whose matches are decomposed (src lines 1205-1221)
Denylisted(n) ==
    \/ n.tag \in {"style", "script", "noscript"}
    \/ n.tag = "sup" /\ "reference" \in n.cls
    \/ n.tag = "span" /\ "mw-editsection" \in n.cls
    \/ n.tag = "table" /\ n.cls \cap {"infobox", "navbox", "ambox", "sidebar"} # {}
    \/ n.tag = "div" /\ n.cls \cap {"reflist", "metadata", "ambox", "mbox-small", "messagebox",
                                    "hatnote", "dablink", "rellink", "infobox", "navbox",
                                    "sidebar"} # {}
    \/ n.tag = "ol" /\ "references" \in n.cls
    \/ n.cls \cap {"infobox", "sidebar"} # {}

\* the classes tried whose name contains "navbox"
NavboxNamed == {"navbox", "navbox-inner"}

\* div.mw-collapsible with "navbox" in its class attribute (src line 1226);
\* no div.navbox is left above it after the selector loop
NavCollapsible(n) ==
    n.tag = "div" /\ "mw-collapsible" \in n.cls /\ n.cls \cap NavboxNamed # {}

\* the decompose() loops, then the div.mw-collapsible rule: a collapsible
\* inside a table loses its collapse classes and keeps its content
RECURSIVE RemoveNoise(_, _)
RemoveNoise(kids, in_table) ==
    IF kids = <<>> THEN <<>>
    ELSE LET k == Head(kids)
             cls == IF k.tag = "div" /\ "mw-collapsible" \in k.cls /\ in_table
                       THEN k.cls \ {"mw-collapsed", "mw-collapsible"} ELSE k.cls
         IN  (IF Denylisted(k) \/ NavCollapsible(k) THEN <<>>
              ELSE <<[k EXCEPT !.cls = cls,
                               !.kids = RemoveNoise(k.kids, in_table \/ k.tag = "table")]>>)
             \o RemoveNoise(Tail(kids), in_table)

\* one decompose() loop: the style loop (src 1205-1206) when `styles`, else
\* the loop over the selector list (src 1207-1221)
StyleTags == {"style", "script", "noscript"}

RECURSIVE Decompose(_, _)
Decompose(kids, styles) ==
    IF kids = <<>> THEN <<>>
    ELSE LET k == Head(kids)
         IN  (IF (IF styles THEN k.tag \in StyleTags ELSE Denylisted(k)) THEN <<>>
              ELSE <<[k EXCEPT !.kids = Decompose(k.kids, styles)]>>)
             \o Decompose(Tail(kids), styles)

\* the loop over div.mw-collapsible (src 1224-1231)
RECURSIVE Uncollapse(_, _)
Uncollapse(kids, in_table) ==
    IF kids = <<>> THEN <<>>
    ELSE LET k == Head(kids)
             cls == IF k.tag = "div" /\ "mw-collapsible" \in k.cls /\ in_table
                       THEN k.cls \ {"mw-collapsed", "mw-collapsible"} ELSE k.cls
         IN  (IF NavCollapsible(k) THEN <<>>
              ELSE <<[k EXCEPT !.cls = cls,
                               !.kids = Uncollapse(k.kids, in_table \/ k.tag = "table")]>>)
             \o Uncollapse(Tail(kids), in_table)

\* soup.select("table.infobox") of extract_images_from_infoboxes
SelectInfoboxes(kids) ==
    SelectSeq(Preorder(kids), LAMBDA n : n.tag = "table" /\ "infobox" \in n.cls)

-----------------------------------------------------------------------------
(* html_to_text: the walk over `elements`.  The state of the loop is       *)
(*   st = [lines, skipping, processed_titles]                              *)

\* norm_title: re.sub(r"\[.*?\]", "", s).strip()
norm_title(s) == Strip(Sub(Cat(<<Cs({91}), Lazy(Dot), Cs({93})>>), <<>>, s))

\* add_title_if_new(title_text, prefix): the lines and titles afterwards,
\* and the value returned
AddTitle(st, title_text, prefix, normalized) ==
    IF title_text = <<>> \/ normalized \in st.processed_titles
       THEN [st |-> st, added |-> FALSE]
       ELSE [st |-> [st EXCEPT
                       !.processed_titles = @ \cup {normalized},
                       !.lines = (IF @ # <<>> /\ @[Len(@)] # <<>> THEN Append(@, <<>>) ELSE @)
                                    \o <<prefix \o title_text>>],
             added |-> TRUE]

add_title_if_new(st, title_text, prefix) ==
    AddTitle(st, title_text, prefix, HeadingKey(title_text))

\* any(key in title for key in exclude)
IsExcluded(title, exclude) == \E key \in exclude : Contains(title, key)

\* el.name == "h2"
\* `if add_title_if_new(title, "## "): lines.append("")`
H2Added(r) == IF r.added THEN [r.st EXCEPT !.lines = Append(@, <<>>)] ELSE r.st

\* the h2 branch without `skipping = False`
H2TitleSticky(st, title, exclude) ==
    IF IsExcluded(title, exclude) THEN [st EXCEPT !.skipping = TRUE]
    ELSE H2Added(add_title_if_new(st, title, <<35, 35, 32>>))

H2Title(st, title, exclude) ==
    IF IsExcluded(title, exclude) THEN [st EXCEPT !.skipping = TRUE]
    ELSE H2Added(add_title_if_new([st EXCEPT !.skipping = FALSE], title, <<35, 35, 32>>))

WalkH2(st, el, exclude) == H2Title(st, norm_title(smart_text(el.n)), exclude)

\* el.name == "h3"
WalkH3(st, el) ==
    IF st.skipping THEN st
    ELSE IF HasParentC(el.anc, "table", "multicol") THEN st
    ELSE add_title_if_new(st, norm_title(smart_text(el.n)), <<35, 35, 35, 32>>).st

\* the pseudo-heading test of a paragraph (src lines 1294-1298)
TitleMaxLen == 50

is_likely_title(txt) ==
    /\ Len(txt) < TitleMaxLen
    /\ txt[Len(txt)] \notin {12290, 46, 65281, 33, 65311, 63}
    /\ ~HasAny(txt, {65292, 44, 12289, 65307, 59, 58, 65306})

-----------------------------------------------------------------------------
(* Label repair                                                            *)

\* _STOP_CHARS  "，,、；;,)）」』】〉。."
STOP_CHARS == {41, 44, 46, 59, 12289, 12290, 12297, 12301, 12303, 12305, 65289, 65292, 65307}

\* the alternatives of _LABEL_CORE_RE, in the order of the pattern:
\*   英語 英文 English 日語 日文 Japanese 韓語 韓文 法語 法文 德語 德文
\*   西班牙語 西文 西語 俄語 俄文 義大利語 義文 意大利語 意文 葡萄牙語 葡文 拉丁語
\*   拉丁文 越南語 越文 泰語 馬來語 馬來文 印尼語 印尼文 粵語 廣東話 閩南語 臺語
\*   台語 閩南話 客語 學名 藝名 本名 原名 舊稱 又名 別名 別稱 外文
LABEL_CORE == <<
    <<33521, 35486>>,
    <<33521, 25991>>,
    <<69, 110, 103, 108, 105, 115, 104>>,
    <<26085, 35486>>,
    <<26085, 25991>>,
    <<74, 97, 112, 97, 110, 101, 115, 101>>,
    <<38867, 35486>>,
    <<38867, 25991>>,
    <<27861, 35486>>,
    <<27861, 25991>>,
    <<24503, 35486>>,
    <<24503, 25991>>,
    <<35199, 29677, 29273, 35486>>,
    <<35199, 25991>>,
    <<35199, 35486>>,
    <<20420, 35486>>,
    <<20420, 25991>>,
    <<32681, 22823, 21033, 35486>>,
    <<32681, 25991>>,
    <<24847, 22823, 21033, 35486>>,
    <<24847, 25991>>,
    <<33889, 33796, 29273, 35486>>,
    <<33889, 25991>>,
    <<25289, 19969, 35486>>,
    <<25289, 19969, 25991>>,
    <<36234, 21335, 35486>>,
    <<36234, 25991>>,
    <<27888, 35486>>,
    <<39340, 20358, 35486>>,
    <<39340, 20358, 25991>>,
    <<21360, 23612, 35486>>,
    <<21360, 23612, 25991>>,
    <<31925, 35486>>,
    <<24291, 26481, 35441>>,
    <<38313, 21335, 35486>>,
    <<33274, 35486>>,
    <<21488, 35486>>,
    <<38313, 21335, 35441>>,
    <<23458, 35486>>,
    <<23416, 21517>>,
    <<34269, 21517>>,
    <<26412, 21517>>,
    <<21407, 21517>>,
    <<33290, 31281>>,
    <<21448, 21517>>,
    <<21029, 21517>>,
    <<21029, 31281>>,
    <<22806, 25991>>
    >>

\* LABEL_LANG_MAP, as (label, language code) pairs:
\*   英語:en 英文:en English:en 日語:ja 日文:ja Japanese:ja 韓語:ko 韓文:ko
\*   法語:fr 法文:fr 德語:de 德文:de 西班牙語:es 西文:es 西語:es 俄語:ru
\*   俄文:ru 義大利語:it 義文:it 意大利語:it 意文:it 葡萄牙語:pt 葡文:pt 拉丁語:la
\*   拉丁文:la 越南語:vi 越文:vi 泰語:th 馬來語:ms 馬來文:ms 印尼語:id 印尼文:id
\*   粵語:yue 廣東話:yue 閩南語:nan 臺語:nan 台語:nan 閩南話:nan 客語:hak 學名:la
LABEL_LANG_MAP == <<
    <<<<33521, 35486>>, "en">>,
    <<<<33521, 25991>>, "en">>,
    <<<<69, 110, 103, 108, 105, 115, 104>>, "en">>,
    <<<<26085, 35486>>, "ja">>,
    <<<<26085, 25991>>, "ja">>,
    <<<<74, 97, 112, 97, 110, 101, 115, 101>>, "ja">>,
    <<<<38867, 35486>>, "ko">>,
    <<<<38867, 25991>>, "ko">>,
    <<<<27861, 35486>>, "fr">>,
    <<<<27861, 25991>>, "fr">>,
    <<<<24503, 35486>>, "de">>,
    <<<<24503, 25991>>, "de">>,
    <<<<35199, 29677, 29273, 35486>>, "es">>,
    <<<<35199, 25991>>, "es">>,
    <<<<35199, 35486>>, "es">>,
    <<<<20420, 35486>>, "ru">>,
    <<<<20420, 25991>>, "ru">>,
    <<<<32681, 22823, 21033, 35486>>, "it">>,
    <<<<32681, 25991>>, "it">>,
    <<<<24847, 22823, 21033, 35486>>, "it">>,
    <<<<24847, 25991>>, "it">>,
    <<<<33889, 33796, 29273, 35486>>, "pt">>,
    <<<<33889, 25991>>, "pt">>,
    <<<<25289, 19969, 35486>>, "la">>,
    <<<<25289, 19969, 25991>>, "la">>,
    <<<<36234, 21335, 35486>>, "vi">>,
    <<<<36234, 25991>>, "vi">>,
    <<<<27888, 35486>>, "th">>,
    <<<<39340, 20358, 35486>>, "ms">>,
    <<<<39340, 20358, 25991>>, "ms">>,
    <<<<21360, 23612, 35486>>, "id">>,
    <<<<21360, 23612, 25991>>, "id">>,
    <<<<31925, 35486>>, "yue">>,
    <<<<24291, 26481, 35441>>, "yue">>,
    <<<<38313, 21335, 35486>>, "nan">>,
    <<<<33274, 35486>>, "nan">>,
    <<<<21488, 35486>>, "nan">>,
    <<<<38313, 21335, 35441>>, "nan">>,
    <<<<23458, 35486>>, "hak">>,
    <<<<23416, 21517>>, "la">>
    >>

\* a map that has the code "en" for every label
LangCodeAny(label) == "en"

\* LABEL_LANG_MAP.get(label): the code, or "" for None
LangCode(label) ==
    IF \E k \in 1..Len(LABEL_LANG_MAP) : LABEL_LANG_MAP[k][1] = label
       THEN LABEL_LANG_MAP[CHOOSE k \in 1..Len(LABEL_LANG_MAP) : LABEL_LANG_MAP[k][1] = label][2]
       ELSE ""

\* _MISSING_AFTER_LABEL:  (label|...)：(?=\s*[，、；)）])
MISSING_AFTER_LABEL ==
    Cat(<<Grp(Alt([k \in 1..Len(LABEL_CORE) |-> Lit(LABEL_CORE[k])])), Cs({65306}),
          La(Cat(<<Star(Cs(WS)), Cs({65292, 12289, 65307, 41, 65289})>>))>>)

\* the value cap of the two scans (maxlen=120)
MaxLen == 120

\* val[:maxlen]
Cap(s) == IF Len(s) > MaxLen THEN SubSeq(s, 1, MaxLen) ELSE s

\* s cut at its last stop character
CutAtLastStop(s) ==
    LET stops == {k \in 1..Len(s) : s[k] \in STOP_CHARS}
    IN  IF stops = {} THEN [chunk |-> s, stop |-> FALSE]
        ELSE [chunk |-> SubSeq(s, 1, (CHOOSE k \in stops : \A j \in stops : j <= k) - 1),
              stop |-> TRUE]

\* cut_at_stop / consume: s stripped and cut at its first stop character
CutStripped(s) ==
    LET stops == {k \in 1..Len(s) : s[k] \in STOP_CHARS}
    IN  IF stops = {} THEN [chunk |-> s, stop |-> FALSE]
        ELSE [chunk |-> SubSeq(s, 1, (CHOOSE k \in stops : \A j \in stops : k <= j) - 1),
              stop |-> TRUE]

CutAtStop(s) == CutStripped(Strip(s))

\* `if chunk: parts.append(chunk)`
AddChunk(parts, chunk) == IF chunk # <<>> THEN Append(parts, chunk) ELSE parts

\* sum(len(p) for p in parts)
RECURSIVE TotalLen(_)
TotalLen(parts) == IF parts = <<>> THEN 0 ELSE Len(Head(parts)) + TotalLen(Tail(parts))

\* Tag.get_text("", strip=True), or the stripped string of a text node
RECURSIVE GetText(_)
RECURSIVE GetTextAll(_)
GetTextAll(kids) == IF kids = <<>> THEN <<>> ELSE GetText(Head(kids)) \o GetTextAll(Tail(kids))
GetText(n) == IF n.tag = "#text" THEN Strip(n.s) ELSE GetTextAll(n.kids)

\* s.find(c): the first index of c in s, 0 when absent
Find(s, c) ==
    IF \E k \in 1..Len(s) : s[k] = c
       THEN CHOOSE k \in 1..Len(s) : s[k] = c /\ \A j \in 1..(k - 1) : s[j] # c
       ELSE 0

\* the loop of _collect_value_after_label over anchor.next_elements;
\* stream is the whole document in document order, i the next node
RECURSIVE LabelScan(_, _, _, _)
RECURSIVE LabelText(_, _, _, _, _)

\* a text node that carries value text: cut is that text cut at its first stop
LabelText(stream, i, parts, cut, parts2) ==
    IF cut.stop \/ TotalLen(parts2) > MaxLen * 2 THEN parts2
    ELSE LabelScan(stream, i + 1, TRUE, parts2)

\* the index of the first colon of s (： before :), 0 when it has none
ColonPos(s) == IF Find(s, 65306) > 0 THEN Find(s, 65306) ELSE Find(s, 58)

\* the text of a node that counts as value: all of it once the colon has
\* been seen, else what follows its colon
AfterColon(s, saw_colon) ==
    CutAtStop(IF saw_colon THEN s ELSE SubSeq(s, ColonPos(s) + 1, Len(s)))

LabelScan(stream, i, saw_colon, parts) ==
    IF i > Len(stream) THEN parts
    ELSE IF stream[i].tag = "#text"
       THEN IF ~saw_colon /\ ColonPos(stream[i].s) = 0
               THEN LabelScan(stream, i + 1, FALSE, parts)
               ELSE LabelText(stream, i, parts, AfterColon(stream[i].s, saw_colon),
                              AddChunk(parts, AfterColon(stream[i].s, saw_colon).chunk))
    ELSE IF stream[i].tag = "br" \/ TotalLen(parts) > MaxLen * 2 THEN parts
    ELSE LabelScan(stream, i + 1, saw_colon, parts)

\* _collect_value_after_label(el, label): [some, v]; el is stream[at]
Capped(val) == IF val = <<>> THEN None ELSE Val(Cap(val))

\* the first of a non-empty set of positions
First(S) == CHOOSE k \in S : \A j \in S : k <= j

LabelValue(stream, anchors) ==
    IF anchors = {} THEN None
    ELSE Capped(Strip(Join(LabelScan(stream, First(anchors) + 1, FALSE, <<>>), <<32>>)))

collect_value_after_label(stream, at, label) ==
    LabelValue(stream,
               {k \in (at + 1)..(at + Size(stream[at]) - 1) : GetText(stream[k]) = label})

\* the loop of _collect_value_after_marker over needle.next_elements
RECURSIVE MarkerScan(_, _, _)
RECURSIVE MarkerText(_, _, _, _)

\* a text node: cut is its text cut at its first stop
MarkerText(stream, i, cut, parts2) ==
    IF cut.stop \/ 2 * TotalLen(parts2) > MaxLen * 3 THEN parts2
    ELSE MarkerScan(stream, i + 1, parts2)

MarkerScan(stream, i, parts) ==
    IF i > Len(stream) THEN parts
    ELSE IF stream[i].tag = "#text"
       THEN MarkerText(stream, i, CutAtStop(stream[i].s),
                       AddChunk(parts, CutAtStop(stream[i].s).chunk))
    ELSE IF stream[i].cls \cap {"reference", "mw-editsection"} # {}
       THEN MarkerScan(stream, i + 1, parts)
    ELSE IF 2 * TotalLen(parts) > MaxLen * 3 THEN parts
    ELSE MarkerScan(stream, i + 1, parts)

\* s.strip(" ")
RECURSIVE StripSpaces(_)
StripSpaces(s) ==
    IF s # <<>> /\ Head(s) = 32 THEN StripSpaces(Tail(s))
    ELSE IF s # <<>> /\ s[Len(s)] = 32 THEN StripSpaces(SubSeq(s, 1, Len(s) - 1))
    ELSE s

\* _collect_value_after_marker(el, marker_text): [some, v]; el is stream[at]
\* s.split(w, 1)[1]: what follows the first occurrence of w in s
AfterFirst(s, w) ==
    SubSeq(s, First({i \in 1..(Len(s) - Len(w) + 1) : SubSeq(s, i, i + Len(w) - 1) = w}) + Len(w),
           Len(s))

\* the value, `tail` being the text after the marker in the needle and cut
\* that text cut at its first stop
MarkerTail(stream, needle, tail, cut) ==
    IF tail # <<>> /\ cut.stop
       THEN Capped(Strip(Join(AddChunk(<<>>, cut.chunk), <<32>>)))
       ELSE Capped(StripSpaces(Join(MarkerScan(stream, needle + 1, AddChunk(<<>>, cut.chunk)),
                                    <<32>>)))

MarkerValue(stream, needles, marker_text) ==
    IF needles = {} THEN None
    ELSE MarkerTail(stream, First(needles),
                    AfterFirst(stream[First(needles)].s, marker_text),
                    CutAtStop(AfterFirst(stream[First(needles)].s, marker_text)))

collect_value_after_marker(stream, at, marker_text) ==
    MarkerValue(stream,
                {k \in (at + 1)..(at + Size(stream[at]) - 1) :
                    stream[k].tag = "#text" /\ Contains(stream[k].s, marker_text)},
                marker_text)

\* a replacement that is the value without its label
FillWithBare(val, label, matched) == IF val.some THEN val.v ELSE matched

\* _repl of fill_labels_if_missing: the text that replaces one match
FillWith(val, label, matched) == IF val.some THEN label \o <<65306>> \o val.v ELSE matched

\* `val = _collect_value_after_label(...) or _collect_value_after_marker(...)`
FirstValue(v1, v2) == IF v1.some THEN v1 ELSE v2

FillRepl(stream, at, label, matched) ==
    FillWith(FirstValue(collect_value_after_label(stream, at, label),
                        collect_value_after_marker(stream, at, label \o <<65306>>)),
             label, matched)

\* _MISSING_AFTER_LABEL.sub(_repl, txt)
RECURSIVE FillFrom(_, _, _, _)
RECURSIVE FillAt(_, _, _, _, _)
\* txt from `from` on, m being the next match
FillAt(stream, at, txt, from, m) ==
    IF ~m.found THEN SubSeq(txt, from, Len(txt))
    ELSE SubSeq(txt, from, m.st - 1)
         \o FillRepl(stream, at, m.c[1], SubSeq(txt, m.st, m.e - 1))
         \o FillFrom(stream, at, txt, m.e)

FillFrom(stream, at, txt, from) ==
    FillAt(stream, at, txt, from, Search(MISSING_AFTER_LABEL, txt, from))

fill_labels_if_missing(stream, at, txt) == FillFrom(stream, at, txt, 1)

-----------------------------------------------------------------------------
(* html_to_text: the block branches of the walk, and the whole function    *)

\* the paragraph branch without the test of `skipping`
PTextAlways(st, el, stream, txt) ==
    IF txt = <<>> THEN st
    ELSE IF is_likely_title(txt) THEN [st EXCEPT !.lines = Append(@, txt)]
    ELSE [st EXCEPT !.lines = Append(@, fill_labels_if_missing(stream, el.pos, txt))]

\* el.name == "p"
PText(st, el, stream, txt) ==
    IF st.skipping \/ txt = <<>> THEN st
    ELSE IF is_likely_title(txt) THEN [st EXCEPT !.lines = Append(@, txt)]
    ELSE [st EXCEPT !.lines = Append(@, fill_labels_if_missing(stream, el.pos, txt))]

WalkP(st, el, stream) == PText(st, el, stream, squeeze(smart_text(el.n)))

\* `for li in el.find_all("li", recursive=False)`
RECURSIVE WalkItems(_)
Bullet(li_txt) == IF li_txt # <<>> THEN <<(<<8226, 32>> \o li_txt)>> ELSE <<>>

WalkItems(lis) ==
    IF lis = <<>> THEN <<>>
    ELSE Bullet(squeeze(smart_text(Head(lis)))) \o WalkItems(Tail(lis))

\* el.name in ("ul", "ol")
WalkList(st, el) ==
    IF st.skipping \/ HasParent(el.anc, "table") THEN st
    ELSE [st EXCEPT !.lines = @ \o WalkItems(Direct(el.n.kids, {"li"}))]

\* `for child in el.find_all(["dt", "dd"], recursive=False)`
RECURSIVE WalkDefs(_)
\* a <dt> or <dd> child whose text is child_txt
WalkDef(child, child_txt) ==
    IF child.tag = "dt"
       THEN IF child_txt # <<>> THEN <<(<<35, 35, 35, 32>> \o child_txt)>> ELSE <<>>
    ELSE IF FindAll(child.kids, {"table"}, <<>>) # <<>> THEN <<>>
    ELSE Line(child_txt)

WalkDefs(kids) ==
    IF kids = <<>> THEN <<>>
    ELSE WalkDef(Head(kids), squeeze(smart_text(Head(kids)))) \o WalkDefs(Tail(kids))

\* el.name == "dl"
WalkDl(st, el) ==
    IF st.skipping \/ HasParent(el.anc, "table") THEN st
    ELSE [st EXCEPT !.lines = @ \o WalkDefs(Direct(el.n.kids, {"dt", "dd"}))]

\* el.name == "table"
WalkTable(st, el) ==
    IF st.skipping \/ HasParent(el.anc, "table") THEN st
    ELSE IF el.n.cls \cap {"infobox", "navbox", "ambox", "mbox", "mbox-small", "messagebox"} # {} THEN st
    ELSE IF "multicol" \in el.n.cls
       THEN [st EXCEPT !.lines = @ \o process_multicol_table(el.n)]
    ELSE [st EXCEPT !.lines = @ \o table_to_lines(el.n)]

\* one iteration of `for el in elements`
WalkStep(st, el, stream, exclude) ==
    CASE el.n.tag = "h2" -> WalkH2(st, el, exclude)
      [] el.n.tag = "h3" -> WalkH3(st, el)
      [] el.n.tag = "p" -> WalkP(st, el, stream)
      [] el.n.tag \in {"ul", "ol"} -> WalkList(st, el)
      [] el.n.tag = "dl" -> WalkDl(st, el)
      [] el.n.tag = "table" -> WalkTable(st, el)

RECURSIVE WalkAll(_, _, _, _)
WalkAll(st, els, stream, exclude) ==
    IF els = <<>> THEN st
    ELSE Eager(st, WalkAll(WalkStep(st, Head(els), stream, exclude), Tail(els), stream, exclude))

\* the tags html_to_text collects
WalkTags == {"h2", "h3", "p", "ul", "ol", "dl", "table"}

\* before the walk: lines = [], skipping = False, processed_titles = set()
WalkInit == [lines |-> <<>>, skipping |-> FALSE, processed_titles |-> {}]

\* the text before zh_tidy: the joined lines after the three clean-up passes
PostProcess(lines) ==
    Eager(lines, remove_archive_links(separate_concatenated_titles(remove_duplicate_headings(
                     Join(lines, <<10>>)))))

\* html_to_text up to its last statement: the text handed to zh_tidy, for
\* the parsed main content `root`
assemble(root, exclude) ==
    PostProcess(
        WalkAll(WalkInit, FindAll(RemoveNoise(root.kids, FALSE), WalkTags, <<>>),
                Preorder(RemoveNoise(root.kids, FALSE)), exclude).lines)

\* the last statements without zh_tidy
ReturnedUntidied(assembled) == [assembled |-> assembled, text |-> assembled]

\* `text = zh_tidy(text); return text, nav_images_json`: the text returned,
\* and with it the text zh_tidy was given
Returned(assembled) == [assembled |-> assembled, text |-> zh_tidy(assembled)]

\* html_to_text(html, exclude_sections=exclude)
html_to_text(root, exclude) == Returned(assemble(root, exclude))

-----------------------------------------------------------------------------
(* process_one: titles, file names, redirect detection, the remote label   *)
(* fallback                                                                *)

\* s[:n]
Take(s, n) == SubSeq(s, 1, IF Len(s) < n THEN Len(s) ELSE n)

\* the cap of a file name (src line 108)
NameMaxLen == 200

\* safe_filename: re.sub(r'[\\/*?:"<>|]', "_", title)[:200]
safe_filename(title) ==
    Take(Sub(Cs({92, 47, 42, 63, 58, 34, 60, 62, 124}), <<95>>, title), NameMaxLen)

\* the value of a hexadecimal digit, -1 for any other character
HexVal(c) ==
    IF c \in 48..57 THEN c - 48
    ELSE IF c \in 65..70 THEN c - 55
    ELSE IF c \in 97..102 THEN c - 87
    ELSE -1

\* urllib.parse.unquote, first half: the %XX escapes and the ASCII characters
\* of s as bytes; a character beyond ASCII passes through, written -c
RECURSIVE UnquoteBytes(_, _)
UnquoteBytes(s, i) ==
    IF i > Len(s) THEN <<>>
    ELSE IF s[i] = 37 /\ i + 2 <= Len(s) /\ HexVal(s[i + 1]) >= 0 /\ HexVal(s[i + 2]) >= 0
       THEN <<16 * HexVal(s[i + 1]) + HexVal(s[i + 2])>> \o UnquoteBytes(s, i + 3)
    ELSE <<(IF s[i] < 128 THEN s[i] ELSE -s[i])>> \o UnquoteBytes(s, i + 1)

\* the number of continuation bytes a UTF-8 lead byte announces, -1 for a
\* byte that cannot lead
Follows(b) ==
    IF b < 128 THEN 0
    ELSE IF b \in 194..223 THEN 1
    ELSE IF b \in 224..239 THEN 2
    ELSE IF b \in 240..244 THEN 3
    ELSE -1

\* the continuation bytes present at bs[i..], at most n of them
RECURSIVE Conts(_, _, _)
Conts(bs, i, n) ==
    IF n = 0 \/ i > Len(bs) \/ bs[i] \notin 128..191 THEN 0 ELSE 1 + Conts(bs, i + 1, n - 1)

\* the code point of a complete sequence of 1 + n bytes at bs[i]
RECURSIVE Scalar(_, _, _, _)
Scalar(bs, i, n, acc) == IF n = 0 THEN acc ELSE Scalar(bs, i + 1, n - 1, acc * 64 + (bs[i] - 128))

LeadBits(b) == IF b < 128 THEN b ELSE IF b < 224 THEN b - 192 ELSE IF b < 240 THEN b - 224 ELSE b - 240

\* urllib.parse.unquote, second half: bytes.decode("utf-8", "replace").  An
\* ill-formed sequence becomes one U+FFFD; overlong and surrogate encodings
\* are decoded arithmetically here, where Python replaces them as well.
RECURSIVE Utf8Decode(_, _)
Utf8Decode(bs, i) ==
    IF i > Len(bs) THEN <<>>
    ELSE IF bs[i] < 0 THEN <<-bs[i]>> \o Utf8Decode(bs, i + 1)
    ELSE IF Follows(bs[i]) < 0 THEN <<65533>> \o Utf8Decode(bs, i + 1)
    ELSE IF Conts(bs, i + 1, Follows(bs[i])) = Follows(bs[i])
       THEN <<Scalar(bs, i + 1, Follows(bs[i]), LeadBits(bs[i]))>>
            \o Utf8Decode(bs, i + 1 + Follows(bs[i]))
    ELSE <<65533>> \o Utf8Decode(bs, i + 1 + Conts(bs, i + 1, Follows(bs[i])))

unquote(s) == Utf8Decode(UnquoteBytes(s, 1), 1)

\* s up to its first character in S
CutAt(s, S) ==
    IF HasAny(s, S) THEN SubSeq(s, 1, First({k \in 1..Len(s) : s[k] \in S}) - 1) ELSE s

\* s.rsplit(w)[-1]: what follows the last occurrence of w in s, s without one
AfterLast(s, w) ==
    IF Contains(s, w)
       THEN SubSeq(s, (CHOOSE i \in 1..(Len(s) - Len(w) + 1) :
                          /\ SubSeq(s, i, i + Len(w) - 1) = w
                          /\ \A j \in (i + 1)..(Len(s) - Len(w) + 1) :
                                SubSeq(s, j, j + Len(w) - 1) # w) + Len(w),
                   Len(s))
       ELSE s

\* urlparse(url).path for scheme://host/path?query#fragment, and for a
\* string without "://" (all of it up to ? or #)
UrlPath(url) ==
    IF Contains(url, <<58, 47, 47>>)
       THEN CutAt(SubSeq(AfterFirst(url, <<58, 47, 47>>),
                         Len(CutAt(AfterFirst(url, <<58, 47, 47>>), {47, 63, 35})) + 1,
                         Len(AfterFirst(url, <<58, 47, 47>>))),
                  {63, 35})
       ELSE CutAt(url, {63, 35})

\* url_to_title: unquote(path.rsplit("/", 1)[-1])
url_to_title(url) == unquote(AfterLast(UrlPath(url), <<47>>))

\* a value Python takes for true: neither None nor ""
Truthy(v) == v.some /\ v.v # <<>>

\* \s*•\s*([^\n•]+)
RedirectItem == <<Star(Cs(WS)), Cs({8226}), Star(Cs(WS)), Grp(Plus(Nc({10, 8226})))>>

\* \s*\[\[([^\]]+)\]\]
RedirectLink == <<Star(Cs(WS)), Cs({91}), Cs({91}), Grp(Plus(Nc({93}))), Cs({93}), Cs({93})>>

\* redirect_patterns, compiled with re.IGNORECASE (which gives I four forms)
redirect_patterns == <<
    \* 重定向到：\s*•\s*([^\n•]+)
    Cat(<<Lit(<<37325, 23450, 21521, 21040, 65306>>)>> \o RedirectItem),
    \* 重新導向至：\s*•\s*([^\n•]+)
    Cat(<<Lit(<<37325, 26032, 23566, 21521, 33267, 65306>>)>> \o RedirectItem),
    \* #REDIRECT\s*\[\[([^\]]+)\]\]
    Cat(<<Cs({35}), Cs({82, 114}), Cs({69, 101}), Cs({68, 100}), Cs({73, 105, 304, 305}),
          Cs({82, 114}), Cs({69, 101}), Cs({67, 99}), Cs({84, 116})>> \o RedirectLink),
    \* #重定向\s*\[\[([^\]]+)\]\]
    Cat(<<Lit(<<35, 37325, 23450, 21521>>)>> \o RedirectLink)
    >>

\* target = match.group(1).strip(); re.sub(r'\|.*$', '', target)
RedirectTarget(m) == Val(Sub(Cat(<<Cs({124}), Star(Dot), Eos>>), <<>>, Strip(m.c[1])))

RECURSIVE DetectFrom(_, _)
RECURSIVE DetectAt(_, _, _)
DetectAt(text, k, m) == IF m.found THEN RedirectTarget(m) ELSE DetectFrom(text, k + 1)

\* `for pattern in redirect_patterns`
DetectFrom(text, k) ==
    IF k > Len(redirect_patterns) THEN None
    ELSE DetectAt(text, k, Search(redirect_patterns[k], text, 1))

\* detect_redirect(text): None, or the target (which may be "")
detect_redirect(text) == DetectFrom(text, 1)

(* A fetched page, as process_one reads it:                                *)
(*   special    : 'Special:Redirect' occurs in the HTML                    *)
(*   href       : the href of its <link rel="dc:isVersionOf">, None        *)
(*                without such a link or href                              *)
(*   head_title : the text of its <title>, None without one                *)
(*   root       : its main content, which html_to_text walks               *)
Html(special, href, head_title, kids) ==
    [special |-> special, href |-> href, head_title |-> head_title, root |-> El("div", kids)]

\* the dc:isVersionOf branch: unquote(href.split('/wiki/')[-1])
VersionOf(html) ==
    IF Truthy(html.href) /\ Contains(html.href.v, <<47, 119, 105, 107, 105, 47>>)
       THEN Val(unquote(AfterLast(html.href.v, <<47, 119, 105, 107, 105, 47>>)))
       ELSE None

\* `if title_text and title_text != '重定向'`
NotRedirectWord(title_text) ==
    IF title_text # <<>> /\ title_text # <<37325, 23450, 21521>> THEN Val(title_text) ELSE None

\* the <title> branch: the stripped title without  \s*[-–]\s*[^-–]*维基百科[^-–]*$
TitleOf(html) ==
    IF html.head_title.some
       THEN NotRedirectWord(
                Sub(Cat(<<Star(Cs(WS)), Cs({45, 8211}), Star(Cs(WS)), Star(Nc({45, 8211})),
                          Lit(<<32500, 22522, 30334, 31185>>), Star(Nc({45, 8211})), Eos>>),
                    <<>>, Strip(html.head_title.v)))
       ELSE None

\* detect_redirect_from_html(html)
detect_redirect_from_html(html) ==
    IF html.special THEN FirstValue(VersionOf(html), TitleOf(html)) ELSE None

\* the language codes of LABEL_LANG_MAP
LangCodes == {LABEL_LANG_MAP[k][2] : k \in 1..Len(LABEL_LANG_MAP)}

\* `return f"{label}：{name}" if name else m.group(0)`
EnsureWith(name, label, matched) ==
    IF Truthy(name) THEN label \o <<65306>> \o name.v ELSE matched

\* _repl of ensure_labels_after_marker; langlinks[code] is what
\* _fetch_langlink_title returns for the title and that code
EnsureRepl(label, matched, langlinks) ==
    IF LangCode(label) = "" THEN matched
    ELSE EnsureWith(langlinks[LangCode(label)], label, matched)

RECURSIVE EnsureFrom(_, _, _)
RECURSIVE EnsureAt(_, _, _, _)
EnsureAt(text, from, langlinks, m) ==
    IF ~m.found THEN SubSeq(text, from, Len(text))
    ELSE SubSeq(text, from, m.st - 1)
         \o EnsureRepl(m.c[1], SubSeq(text, m.st, m.e - 1), langlinks)
         \o EnsureFrom(text, m.e, langlinks)

EnsureFrom(text, from, langlinks) ==
    EnsureAt(text, from, langlinks, Search(MISSING_AFTER_LABEL, text, from))

\* ensure_labels_after_marker(text, title=actual_title, session=session)
ensure_labels_after_marker(text, langlinks) == EnsureFrom(text, 1, langlinks)

\* `if html_redirect_target and html_redirect_target != title`, and the
\* same test of redirect_target
Redirects(target, title) == Truthy(target) /\ target.v # title

\* where process_one continues after its first fetch
AfterFetch(target, title) == IF Redirects(target, title) THEN "fetch_html" ELSE "walk"

\* a continuation that follows a redirect after the re-run too
AfterWalkAgain(rerun, target, title) ==
    IF Redirects(target, title) THEN "fetch_text" ELSE "labels"

\* where process_one continues after html_to_text: detect_redirect and the
\* re-fetch follow the first run only, the re-run is followed by the labels
AfterWalk(rerun, target, title) ==
    IF ~rerun /\ Redirects(target, title) THEN "fetch_text" ELSE "labels"

\* an error that does not name the target
RedirectErrorBare(target) == [kind |-> "redirect_fetch", about |-> <<>>]

\* raise RuntimeError(f"重定向目標頁面抓取失敗: {target}, 錯誤: {e}")
RedirectError(target) == [kind |-> "redirect_fetch", about |-> target]

\* the exception of fetch_html_rest, which process_one lets through
FetchError(title) == [kind |-> "fetch", about |-> title]

\* a test that lets every text through
IsBlankNever(text) == FALSE

\* `if len(text.strip()) == 0`
IsBlank(text) == Len(Strip(text)) = 0

\* raise RuntimeError(f"抓取的文本長度為 0：{actual_title}")
EmptyError(actual_title) == [kind |-> "empty", about |-> actual_title]

\* final_filename = safe_filename(actual_title)
FinalName(actual_title) == safe_filename(actual_title)

\* status = "redirect_ok" if redirect_target else "ok"
Status(target) == IF Truthy(target) THEN "redirect_ok" ELSE "ok"

\* the status returned when out_txt exists
ExistsStatus(target) == IF Truthy(target) THEN "redirect_exists" ELSE "exists"

\* a record titled with the query
RecOfQuery(title, actual_title, text, target) ==
    [title |-> title, original_query |-> title, text_length |-> Len(text),
     text |-> text, out_file |-> FinalName(actual_title),
     redirected_from |-> IF Truthy(target) THEN Val(title) ELSE None,
     redirected_to |-> IF Truthy(target) THEN Val(actual_title) ELSE None]

\* rec: the fields that depend on the document
Rec(title, actual_title, text, target) ==
    [title |-> actual_title, original_query |-> title, text_length |-> Len(text),
     text |-> text, out_file |-> FinalName(actual_title),
     redirected_from |-> IF Truthy(target) THEN Val(title) ELSE None,
     redirected_to |-> IF Truthy(target) THEN Val(actual_title) ELSE None]

\* the tuple process_one returns
Result(title, ok, status) == [title |-> title, ok |-> ok, status |-> status]

-----------------------------------------------------------------------------
(* The state                                                               *)

VARIABLES
    \* zh_tidy applied to a text, and to its own result
    tidy_in,            \* the argument `text`
    tidy_once,          \* zh_tidy(text)
    tidy_twice,         \* zh_tidy(zh_tidy(text))
    tidy_pc,            \* "in" | "once" | "twice"
    \* html_to_text
    root,               \* the parsed main content (div.mw-parser-output)
    elements,           \* root.find_all([...]) after noise removal
    stream,             \* the nodes of the document in document order
    el_i,               \* the number of elements the loop has processed
    lines,
    skipping,
    processed_titles,
    text,               \* the text html_to_text returns
    walk_pc,            \* "noise" | "walk" | "done"
    \* table_to_lines
    table,              \* the <table> element
    tr_i,               \* the number of direct rows the loop has processed
    row_spans,
    rows,
    table_lines,        \* the lines table_to_lines returns
    table_pc,           \* "rows" | "done"
    \* process_one
    title,
    force,
    files,              \* the names (without .txt) of the files of txt_dir
    html,               \* the page fetched last
    actual_title,
    got_title,          \* the title the last fetch resolved
    html_redirect_target,
    redirect_target,
    assembled,          \* what the last html_to_text handed to zh_tidy
    tidied,             \* what the last html_to_text returned
    doc_text,           \* the local `text`
    fetches,            \* the fetches tried: [hop, title, ok], in order
    walks,              \* the number of calls of html_to_text
    written,            \* the writes of text files: [file, text], in order
    jsonl,              \* the records written to jsonl_file, in order
    images,             \* the number of appends to images_info.jsonl
    result,             \* the tuple returned, NoResult before it
    error,              \* the exception raised, NoError before it
    proc_pc,
    \* smart_text
    smart_node,         \* the argument `node`
    child_i,            \* the number of children the loop has processed
    text_parts,         \* "".join(text_parts)
    last_ascii,
    smart_out,          \* the string returned
    smart_pc,           \* "children" | "done"
    \* _MISSING_AFTER_LABEL.sub(_repl, ...) in fill_labels_if_missing and in
    \* ensure_labels_after_marker
    lab_el,             \* the paragraph `el` (fill_labels_if_missing)
    lab_txt,            \* the argument `txt` / `text`
    lab_from,           \* where the search for the next match starts
    lab_out,            \* the result as far as it is built
    lab_m,              \* the match _repl is called for: [st, e, label]
    lab_val,            \* `val` / `name`
    lab_log,            \* the scans and lookups made: [st, call, got], in order
    lab_pc,
    \* http_get_with_backoff
    http_retries,       \* the argument `retries`
    http_base,          \* the argument `backoff_base`
    http_i,             \* the loop variable `i`
    http_log,           \* what session.get answered, in order
    http_sleeps,        \* the arguments of time.sleep, in order
    last_exc,           \* the kind of the exception caught last, "none" before
    http_out,           \* the response returned
    http_pc,            \* "get" | "raise" | "returned" | "raised"
    \* the calls of fetch_html_action and fetch_html_rest that process_one
    \* makes: [api, title, ok], in order
    api_calls,
    api_got,            \* the calls of the last fetch: [api, title, answer]
    \* fill_labels_if_missing: the blocks that follow the paragraph `el` in
    \* the document
    lab_after,
    \* html_to_text before the walk
    soup,               \* the children of the root as decompose() leaves them
    tree_log,           \* the passes over the tree: [op, by], in order
    infoboxes,          \* how many table.infobox extract_images_from_infoboxes scanned
    \* main
    args_force,         \* args.force
    all_targets,        \* the raw titles of the targets, in order
    processed_count,
    handled,            \* the raw titles handed to process_one, in order
    tally,              \* [ok, skip, fail]
    all_data_jsonl,     \* the lines of jsonl/all_data.jsonl
    failures_log,       \* the lines of _failures.jsonl
    txt_dir,            \* the files of txt_dir: [file, text]
    main_pc,            \* "loop" | "done"; "par" for two instances
    inst                \* two instances side by side: [before, run], run[i] = [pc, raw, final, all_jsonl]

tidy_vars == <<tidy_in, tidy_once, tidy_twice, tidy_pc>>
walk_vars == <<root, elements, stream, el_i, lines, skipping, processed_titles, text, walk_pc>>
table_vars == <<table, tr_i, row_spans, rows, table_lines, table_pc>>
proc_in == <<title, force>>
proc_page == <<html, actual_title, got_title>>
proc_text == <<assembled, tidied, doc_text>>
proc_out == <<files, written, jsonl, images>>
proc_vars == <<proc_in, proc_page, html_redirect_target, redirect_target, proc_text,
               fetches, walks, proc_out, result, error, proc_pc>>

smart_vars == <<smart_node, child_i, text_parts, last_ascii, smart_out, smart_pc>>
lab_vars == <<lab_el, lab_txt, lab_from, lab_out, lab_m, lab_val, lab_log, lab_pc>>
http_vars == <<http_retries, http_base, http_i, http_log, http_sleeps, last_exc, http_out,
               http_pc>>
noise_vars == <<soup, tree_log, infoboxes>>
main_vars == <<args_force, all_targets, processed_count, handled, tally, all_data_jsonl,
               failures_log, txt_dir, main_pc, inst>>
far_vars == <<http_vars, lab_after, noise_vars, main_vars>>
api_vars == <<api_calls, api_got>>
more_vars == <<api_vars, far_vars>>
call_vars == <<smart_vars, lab_vars, more_vars>>

vars == <<tidy_vars, walk_vars, table_vars, proc_vars, call_vars>>

-----------------------------------------------------------------------------
(* Specification of zh_tidy: a text is tidied, and the result tidied again *)

\* the characters of the texts tried: space, newline, "a", "{", 、
TidyAlphabet == {32, 10, 97, 123, 12289}

MaxTidyLen == 4

TidyInputs == UNION {[1..n -> TidyAlphabet] : n \in 0..MaxTidyLen}

\* longer texts of "a" and newlines: lines with runs of blank lines between
MaxLinesLen == 6

TidyLines == UNION {[1..n -> {97, 10}] : n \in (MaxTidyLen + 1)..MaxLinesLen}

TidyIdle == tidy_in = <<>> /\ tidy_once = <<>> /\ tidy_twice = <<>> /\ tidy_pc = "idle"

WalkIdle ==
    /\ root = El("div", <<>>) /\ elements = <<>> /\ stream = <<>> /\ el_i = 0
    /\ lines = <<>> /\ skipping = FALSE /\ processed_titles = {} /\ text = <<>>
    /\ walk_pc = "idle"

TableIdle ==
    /\ table = El("table", <<>>) /\ tr_i = 0 /\ row_spans = <<>> /\ rows = <<>>
    /\ table_lines = <<>> /\ table_pc = "idle"

NoResult == [title |-> <<>>, ok |-> FALSE, status |-> "none"]
NoError == [kind |-> "none", about |-> <<>>]

ProcIdle ==
    /\ title = <<>> /\ force = FALSE /\ files = {}
    /\ html = Html(FALSE, None, None, <<>>) /\ actual_title = <<>> /\ got_title = <<>>
    /\ html_redirect_target = None /\ redirect_target = None
    /\ assembled = <<>> /\ tidied = <<>> /\ doc_text = <<>>
    /\ fetches = <<>> /\ walks = 0 /\ written = <<>> /\ jsonl = <<>> /\ images = 0
    /\ result = NoResult /\ error = NoError /\ proc_pc = "idle"

SmartIdle ==
    /\ smart_node = El("p", <<>>) /\ child_i = 0 /\ text_parts = <<>> /\ last_ascii = FALSE
    /\ smart_out = <<>> /\ smart_pc = "idle"

NoMatch == [st |-> 0, e |-> 0, label |-> <<>>]

LabIdle ==
    /\ lab_el = El("p", <<>>) /\ lab_txt = <<>> /\ lab_from = 1 /\ lab_out = <<>>
    /\ lab_m = NoMatch /\ lab_val = None /\ lab_log = <<>> /\ lab_pc = "idle"

NoResponse == [status |-> 0, maxlag |-> FALSE, error |-> FALSE]

HttpIdle ==
    /\ http_retries = 0 /\ http_base = 0 /\ http_i = 0 /\ http_log = <<>>
    /\ http_sleeps = <<>> /\ last_exc = "none" /\ http_out = NoResponse /\ http_pc = "idle"

NoiseIdle == soup = <<>> /\ tree_log = <<>> /\ infoboxes = 0

NoTally == [ok |-> 0, skip |-> 0, fail |-> 0]

MainIdle ==
    /\ args_force = FALSE /\ all_targets = <<>> /\ processed_count = 0 /\ handled = <<>>
    /\ tally = NoTally /\ all_data_jsonl = <<>> /\ failures_log = <<>> /\ txt_dir = {}
    /\ main_pc = "idle" /\ inst = <<>>

FarIdle == HttpIdle /\ lab_after = <<>> /\ NoiseIdle /\ MainIdle

ApiIdle == api_calls = <<>> /\ api_got = <<>>

MoreIdle == ApiIdle /\ FarIdle

CallIdle == SmartIdle /\ LabIdle /\ MoreIdle

TidyInit ==
    /\ tidy_in \in TidyInputs \cup TidyLines
    /\ tidy_once = <<>> /\ tidy_twice = <<>> /\ tidy_pc = "in"
    /\ WalkIdle /\ TableIdle /\ ProcIdle /\ CallIdle

TidyOnce ==
    /\ tidy_pc = "in"
    /\ tidy_once' = zh_tidy(tidy_in)
    /\ tidy_pc' = "once"
    /\ UNCHANGED <<tidy_in, tidy_twice, walk_vars, table_vars, proc_vars, call_vars>>

TidyTwice ==
    /\ tidy_pc = "once"
    /\ tidy_twice' = zh_tidy(tidy_once)
    /\ tidy_pc' = "twice"
    /\ UNCHANGED <<tidy_in, tidy_once, walk_vars, table_vars, proc_vars, call_vars>>

TidyNext == TidyOnce \/ TidyTwice

SpecTidy == TidyInit /\ [][TidyNext]_vars

-----------------------------------------------------------------------------
(* Specification of html_to_text: noise removal, the walk over the         *)
(* elements one at a time, then the clean-up passes and zh_tidy            *)

\* the default of --exclude-sections (src line 1579):
\*   引用資料 參考書目 相關學術研究書目 參考 參考來源 參考資料 外部連結 相關條目
\*   擴展閱讀 延伸閱讀 參見 參考文獻 腳註 註釋 註解 注解
\*   備註 關聯項目 資料來源 注釋 註腳 注腳 關連項目 備注
ExcludeSections == {
    <<24341, 29992, 36039, 26009>>,
    <<21443, 32771, 26360, 30446>>,
    <<30456, 38364, 23416, 34899, 30740, 31350, 26360, 30446>>,
    <<21443, 32771>>,
    <<21443, 32771, 20358, 28304>>,
    <<21443, 32771, 36039, 26009>>,
    <<22806, 37096, 36899, 32080>>,
    <<30456, 38364, 26781, 30446>>,
    <<25844, 23637, 38321, 35712>>,
    <<24310, 20280, 38321, 35712>>,
    <<21443, 35211>>,
    <<21443, 32771, 25991, 29563>>,
    <<33139, 35387>>,
    <<35387, 37323>>,
    <<35387, 35299>>,
    <<27880, 35299>>,
    <<20633, 35387>>,
    <<38364, 32879, 38917, 30446>>,
    <<36039, 26009, 20358, 28304>>,
    <<27880, 37323>>,
    <<35387, 33139>>,
    <<27880, 33139>>,
    <<38364, 36899, 38917, 30446>>,
    <<20633, 27880>>
    }

\* the blocks the documents tried are made of
H2Excluded == El("h2", <<Txt(<<21443, 91, 49, 93, 32771, 36039, 26009>>)>>)       \* <h2>參[1]考資料</h2>
H2Kept == El("h2", <<Txt(<<20491, 20154, 29983, 27963>>)>>)           \* <h2>個人生活</h2>
H3Block == El("h3", <<Txt(<<26089, 24180>>)>>)           \* <h3>早年</h3>
\* <p>甲<sup class="reference">[2]</sup><b>乙</b>。</p>
PBlock == El("p", <<Txt(<<30002>>), ElC("sup", {"reference"}, <<Txt(<<91, 50, 93>>)>>),
                    El("b", <<Txt(<<20057>>)>>), Txt(<<12290>>)>>)
\* <ul><li>丙</li></ul>
UlBlock == El("ul", <<El("li", <<Txt(<<19993>>)>>)>>)
\* <dl><dt>丁</dt><dd>戊</dd></dl>
DlBlock == El("dl", <<El("dt", <<Txt(<<19969>>)>>), El("dd", <<Txt(<<25098>>)>>)>>)
\* <table><tr><td>己</td><td>庚</td></tr></table>
TableBlock == El("table", <<El("tr", <<Cell("td", NoAttr, NoAttr, <<Txt(<<24049>>)>>),
                                        Cell("td", NoAttr, NoAttr, <<Txt(<<24218>>)>>)>>)>>)

\* <p> </p>
PEmpty == El("p", <<Txt(<<32>>)>>)

Pool == {H2Excluded, H2Kept, H3Block, PBlock, PEmpty, UlBlock, DlBlock, TableBlock}

MaxBlocks == 3

Docs == {El("div", blocks) : blocks \in UNION {[1..n -> Pool] : n \in 0..MaxBlocks}}

WalkSpecInit ==
    /\ root \in Docs
    /\ elements = <<>> /\ stream = <<>> /\ el_i = 0
    /\ lines = <<>> /\ skipping = FALSE /\ processed_titles = {} /\ text = <<>>
    /\ walk_pc = "noise"
    /\ TidyIdle /\ TableIdle /\ ProcIdle /\ CallIdle

\* the noise removal and the collection of the elements
Noise ==
    /\ walk_pc = "noise"
    /\ \E kids \in {RemoveNoise(root.kids, FALSE)} :
           /\ elements' = FindAll(kids, WalkTags, <<>>)
           /\ stream' = Preorder(kids)
    /\ walk_pc' = "walk"
    /\ UNCHANGED <<root, el_i, lines, skipping, processed_titles, text>>
    /\ UNCHANGED <<tidy_vars, table_vars, proc_vars, call_vars>>

\* the state of the loop, and the element it processes next
LoopState == [lines |-> lines, skipping |-> skipping, processed_titles |-> processed_titles]
NextEl == elements[el_i + 1]

\* one iteration of the loop, for an element with one of `tags`
Iterate(tags) ==
    /\ walk_pc = "walk"
    /\ el_i < Len(elements)
    /\ NextEl.n.tag \in tags
    /\ \E st \in {WalkStep(LoopState, NextEl, stream, ExcludeSections)} :
           /\ lines' = st.lines
           /\ skipping' = st.skipping
           /\ processed_titles' = st.processed_titles
    /\ el_i' = el_i + 1
    /\ UNCHANGED <<root, elements, stream, text, walk_pc>>
    /\ UNCHANGED <<tidy_vars, table_vars, proc_vars, call_vars>>

StepH2 == Iterate({"h2"})
StepH3 == Iterate({"h3"})
StepP == Iterate({"p"})
StepList == Iterate({"ul", "ol"})
StepDl == Iterate({"dl"})
StepTable == Iterate({"table"})

\* after the loop: join, clean up, tidy
Finish ==
    /\ walk_pc = "walk"
    /\ el_i = Len(elements)
    /\ text' = zh_tidy(PostProcess(lines))
    /\ walk_pc' = "done"
    /\ UNCHANGED <<root, elements, stream, el_i, lines, skipping, processed_titles>>
    /\ UNCHANGED <<tidy_vars, table_vars, proc_vars, call_vars>>

WalkNext == Noise \/ StepH2 \/ StepH3 \/ StepP \/ StepList \/ StepDl \/ StepTable \/ Finish

SpecWalk == WalkSpecInit /\ [][WalkNext]_vars

\* documents with ordered and nested lists
\* <ol><li>丙</li><li></li><li>辛</li></ol>
OlBlock == El("ol", <<El("li", <<Txt(<<19993>>)>>), El("li", <<>>), El("li", <<Txt(<<36763>>)>>)>>)
\* <table><tr><td>己</td><td><ol><li>丙</li><li></li><li>辛</li></ol></td></tr></table>
TableOl == El("table", <<El("tr", <<Cell("td", NoAttr, NoAttr, <<Txt(<<24049>>)>>),
                                     Cell("td", NoAttr, NoAttr, <<OlBlock>>)>>)>>)
\* the text of the nested item
NestedItem == <<30328>>
\* <ul><li>壬<ul><li>癸</li></ul></li></ul>
NestedUl == El("ul", <<El("li", <<Txt(<<22764>>), El("ul", <<El("li", <<Txt(NestedItem)>>)>>)>>)>>)

ListPool == {H2Kept, H3Block, PBlock, OlBlock, TableOl, NestedUl, DlBlock}

ListDocs == {El("div", blocks) : blocks \in UNION {[1..n -> ListPool] : n \in 0..MaxBlocks}}

ListsInit ==
    /\ root \in ListDocs
    /\ elements = <<>> /\ stream = <<>> /\ el_i = 0
    /\ lines = <<>> /\ skipping = FALSE /\ processed_titles = {} /\ text = <<>>
    /\ walk_pc = "noise"
    /\ TidyIdle /\ TableIdle /\ ProcIdle /\ CallIdle

SpecLists == ListsInit /\ [][WalkNext]_vars

-----------------------------------------------------------------------------
(* Specification of table_to_lines: the rows of a table one at a time      *)

MaxRows == 3
MaxCells == 2

\* the <<colspan, rowspan>> attributes a cell is given: none, rowspan "2" or "3",
\* colspan "2"
CellShapes == {<<NoAttr, NoAttr>>, <<NoAttr, Attr(2)>>, <<NoAttr, Attr(3)>>,
               <<Attr(2), NoAttr>>}

\* the cell k of row r holds one letter no other cell holds
CellText(r, k) == <<64 + (r - 1) * MaxCells + k>>

\* the rows of n cells, at row index r
RowsAt(r, n) ==
    {El("tr", [k \in 1..n |-> Cell(IF k = 1 THEN "th" ELSE "td", at[k][1], at[k][2],
                                   <<Txt(CellText(r, k))>>)]) :
        at \in [1..n -> CellShapes]}

RECURSIVE TrSeqs(_)
TrSeqs(m) ==
    IF m = 0 THEN {<<>>}
    ELSE {Append(trs, tr) : trs \in TrSeqs(m - 1),
                            tr \in UNION {RowsAt(m, n) : n \in 1..MaxCells}}

\* the rows of n cells without colspan and rowspan, at row index r; a cell
\* holds its letter or no text
PlainRowsAt(r, n) ==
    {El("tr", [k \in 1..n |-> Cell("td", NoAttr, NoAttr,
                                   <<Txt(IF filled[k] THEN CellText(r, k) ELSE <<>>)>>)]) :
        filled \in [1..n -> BOOLEAN]}

RECURSIVE PlainTrSeqs(_)
PlainTrSeqs(m) ==
    IF m = 0 THEN {<<>>}
    ELSE {Append(trs, tr) : trs \in PlainTrSeqs(m - 1),
                            tr \in UNION {PlainRowsAt(m, n) : n \in 0..MaxCells}}

\* the tables with merged cells, all cells with text, and the tables without
\* merged cells, cells and rows with or without text
Tables ==
    {El("table", trs) : trs \in UNION {TrSeqs(m) \cup PlainTrSeqs(m) : m \in 1..MaxRows}}

TableInit ==
    /\ table \in Tables
    /\ tr_i = 0 /\ row_spans = <<>> /\ rows = <<>> /\ table_lines = <<>>
    /\ table_pc = "rows"
    /\ TidyIdle /\ WalkIdle /\ ProcIdle /\ CallIdle

\* one iteration of `for tr in table.find_all("tr")`
RowStep ==
    /\ table_pc = "rows"
    /\ tr_i < Len(DirectRows(table))
    /\ \E st \in {TableRow([row_spans |-> row_spans, rows |-> rows],
                           DirectRows(table)[tr_i + 1])} :
           /\ row_spans' = st.row_spans
           /\ rows' = st.rows
    /\ tr_i' = tr_i + 1
    /\ UNCHANGED <<table, table_lines, table_pc>>
    /\ UNCHANGED <<tidy_vars, walk_vars, proc_vars, call_vars>>

\* after the loop: the caption and one line for each row kept
Emit ==
    /\ table_pc = "rows"
    /\ tr_i = Len(DirectRows(table))
    /\ table_lines' = CaptionLines(table) \o RowLines(rows)
    /\ table_pc' = "done"
    /\ UNCHANGED <<table, tr_i, row_spans, rows>>
    /\ UNCHANGED <<tidy_vars, walk_vars, proc_vars, call_vars>>

TableNext == RowStep \/ Emit

SpecTable == TableInit /\ [][TableNext]_vars

-----------------------------------------------------------------------------
(* Specification of process_one: one request, its fetches, the text, the   *)
(* files                                                                   *)

TitleA == <<65>>
TitleB == <<66>>
TitleC == <<67>>
TitleD == <<68>>

\* the request: the title "A", given as a title or as a URL
Requests ==
    {[kind |-> "title", raw |-> TitleA],
     \* https://zh.wikipedia.org/wiki/A
     [kind |-> "url", raw |-> <<104, 116, 116, 112, 115, 58, 47, 47, 122, 104, 46, 119, 105, 107, 105, 112, 101, 100, 105, 97, 46, 111, 114, 103, 47, 119, 105, 107, 105, 47, 65>>]}

\* <p>甲 乙。</p>
PageContent == Html(FALSE, None, None, <<El("p", <<Txt(<<30002, 32, 20057, 12290>>)>>)>>)
\* a page without content
PageEmpty == Html(FALSE, None, None, <<>>)
\* <p>甲（英語：，乙）。</p>
PageLabel ==
    Html(FALSE, None, None,
         <<El("p", <<Txt(<<30002, 65288, 33521, 35486, 65306, 65292, 20057, 65289, 12290>>)>>)>>)
\* <p>重定向到：</p><ul><li>target</li></ul>
PageRedirect(target) ==
    Html(FALSE, None, None,
         <<El("p", <<Txt(<<37325, 23450, 21521, 21040, 65306>>)>>),
           El("ul", <<El("li", <<Txt(target)>>)>>)>>)
\* Special:Redirect with <link rel="dc:isVersionOf" href="//zh.wikipedia.org/wiki/B">
PageSpecialB == Html(TRUE, Val(<<47, 47, 122, 104, 46, 119, 105, 107, 105, 112, 101, 100, 105, 97, 46, 111, 114, 103, 47, 119, 105, 107, 105, 47, 66>>), None, <<>>)
\* Special:Redirect with <link rel="dc:isVersionOf" href="/wiki/%41">
PageSpecialA == Html(TRUE, Val(<<47, 119, 105, 107, 105, 47, 37, 52, 49>>), None, <<>>)
\* Special:Redirect with <title>C - 维基百科，自由的百科全书</title>
PageSpecialC == Html(TRUE, None, Val(<<67, 32, 45, 32, 32500, 22522, 30334, 31185, 65292, 33258, 30001, 30340, 30334, 31185, 20840, 20070>>), <<>>)

Pages == {PageContent, PageEmpty, PageLabel,
          PageRedirect(TitleA), PageRedirect(TitleB), PageRedirect(TitleC),
          PageSpecialB, PageSpecialA, PageSpecialC}

\* what _fetch_langlink_title answers: no title, or "Jia", for every code
LangLinks == {[c \in LangCodes |-> name] : name \in {None, Val(<<74, 105, 97>>)}}

ProcInit ==
    /\ \E req \in Requests :
           title = (IF req.kind = "url" THEN url_to_title(req.raw) ELSE req.raw)
    /\ force \in BOOLEAN
    /\ files \in SUBSET {safe_filename(TitleA), safe_filename(TitleD)}
    /\ html = Html(FALSE, None, None, <<>>) /\ actual_title = <<>> /\ got_title = <<>>
    /\ html_redirect_target = None /\ redirect_target = None
    /\ assembled = <<>> /\ tidied = <<>> /\ doc_text = <<>>
    /\ fetches = <<>> /\ walks = 0 /\ written = <<>> /\ jsonl = <<>> /\ images = 0
    /\ result = NoResult /\ error = NoError /\ proc_pc = "start"
    /\ TidyIdle /\ WalkIdle /\ TableIdle /\ CallIdle

\* `if not force and requested_path.exists(): return title, True, "exists"`
Start ==
    /\ proc_pc = "start"
    /\ IF ~force /\ safe_filename(title) \in files
          THEN /\ result' = Result(title, TRUE, "exists")
               /\ proc_pc' = "returned"
               /\ UNCHANGED actual_title
          ELSE /\ actual_title' = title
               /\ proc_pc' = "fetch"
               /\ UNCHANGED result
    /\ UNCHANGED <<proc_in, html, got_title, html_redirect_target, redirect_target,
                   proc_text, fetches, walks, proc_out, error>>
    /\ UNCHANGED <<tidy_vars, walk_vars, table_vars, call_vars>>

\* what one API answers for a title: it raises, or it returns a page and the
\* title it resolved (the display title, or parse.title, or the title asked)
NoAnswer == [ok |-> FALSE, page |-> Html(FALSE, None, None, <<>>), resolved |-> <<>>]

Answers(target) ==
    {NoAnswer} \cup {[ok |-> TRUE, page |-> page, resolved |-> resolved] :
                        page \in Pages, resolved \in {target, TitleD}}

ApiCall(api, target, answer) == [api |-> api, title |-> target, answer |-> answer]

\* the calls with fetch_html_rest tried first
TryFetchRestFirst(target, action, rest) ==
    IF rest.ok THEN <<ApiCall("rest", target, rest)>>
    ELSE <<ApiCall("rest", target, rest), ApiCall("action", target, action)>>

\* `try: fetch_html_action(target)  except Exception: fetch_html_rest(target)`:
\* the calls made when the two APIs answer `action` and `rest`
TryFetch(target, action, rest) ==
    IF action.ok THEN <<ApiCall("action", target, action)>>
    ELSE <<ApiCall("action", target, action), ApiCall("rest", target, rest)>>

\* the answer of the call made last
Answered(made) == made[Len(made)].answer

\* the calls as api_calls keeps them
Brief(made) ==
    [k \in 1..Len(made) |->
        [api |-> made[k].api, title |-> made[k].title, ok |-> made[k].answer.ok]]

\* a fetch of `target` that succeeds, in fetch_html_action or, after its
\* failure, in fetch_html_rest
Fetched(hop, target, page, resolved) ==
    /\ html' = page
    /\ actual_title' = resolved
    /\ got_title' = resolved
    /\ fetches' = Append(fetches, [hop |-> hop, title |-> target, ok |-> TRUE])

\* a fetch of `target` that fails in fetch_html_action and in fetch_html_rest
Failed(hop, target) ==
    /\ fetches' = Append(fetches, [hop |-> hop, title |-> target, ok |-> FALSE])
    /\ proc_pc' = "raised"

\* the fetch of `target` succeeds with the calls `made`
FetchedBy(hop, target, made) ==
    /\ Answered(made).ok
    /\ Fetched(hop, target, Answered(made).page, Answered(made).resolved)
    /\ api_calls' = api_calls \o Brief(made)
    /\ api_got' = made

\* the fetch of `target` fails with the calls `made`
FailedBy(hop, target, made) ==
    /\ ~Answered(made).ok
    /\ Failed(hop, target)
    /\ api_calls' = api_calls \o Brief(made)
    /\ api_got' = made

\* the first fetch, and detect_redirect_from_html
FetchOk ==
    /\ proc_pc = "fetch"
    /\ \E action \in Answers(title), rest \in Answers(title) :
           /\ FetchedBy("first", title, TryFetch(title, action, rest))
           /\ html_redirect_target' = detect_redirect_from_html(html')
           /\ proc_pc' = AfterFetch(detect_redirect_from_html(html'), title)
    /\ UNCHANGED <<proc_in, redirect_target, proc_text, walks, proc_out, result, error>>
    /\ UNCHANGED <<tidy_vars, walk_vars, table_vars, smart_vars, lab_vars, far_vars>>

FetchFail ==
    /\ proc_pc = "fetch"
    /\ \E action \in Answers(title), rest \in Answers(title) :
           FailedBy("first", title, TryFetch(title, action, rest))
    /\ error' = FetchError(title)
    /\ UNCHANGED <<proc_in, proc_page, html_redirect_target, redirect_target, proc_text,
                   walks, proc_out, result>>
    /\ UNCHANGED <<tidy_vars, walk_vars, table_vars, smart_vars, lab_vars, far_vars>>

\* the fetch of html_redirect_target
HtmlHopOk ==
    /\ proc_pc = "fetch_html"
    /\ \E action \in Answers(html_redirect_target.v), rest \in Answers(html_redirect_target.v) :
           FetchedBy("html", html_redirect_target.v,
                     TryFetch(html_redirect_target.v, action, rest))
    /\ proc_pc' = "walk"
    /\ UNCHANGED <<proc_in, html_redirect_target, redirect_target, proc_text, walks,
                   proc_out, result, error>>
    /\ UNCHANGED <<tidy_vars, walk_vars, table_vars, smart_vars, lab_vars, far_vars>>

HtmlHopFail ==
    /\ proc_pc = "fetch_html"
    /\ \E action \in Answers(html_redirect_target.v), rest \in Answers(html_redirect_target.v) :
           FailedBy("html", html_redirect_target.v,
                    TryFetch(html_redirect_target.v, action, rest))
    /\ error' = RedirectError(html_redirect_target.v)
    /\ UNCHANGED <<proc_in, proc_page, html_redirect_target, redirect_target, proc_text,
                   walks, proc_out, result>>
    /\ UNCHANGED <<tidy_vars, walk_vars, table_vars, smart_vars, lab_vars, far_vars>>

\* html_to_text on the page fetched last
Walked ==
    /\ \E r \in {html_to_text(html.root, ExcludeSections)} :
           /\ assembled' = r.assembled
           /\ tidied' = r.text
           /\ doc_text' = r.text
    /\ walks' = walks + 1

\* the first html_to_text, and detect_redirect
Walk ==
    /\ proc_pc = "walk"
    /\ Walked
    /\ redirect_target' = detect_redirect(doc_text')
    /\ proc_pc' = AfterWalk(FALSE, redirect_target', title)
    /\ UNCHANGED <<proc_in, proc_page, html_redirect_target, fetches, proc_out, result, error>>
    /\ UNCHANGED <<tidy_vars, walk_vars, table_vars, call_vars>>

\* the fetch of redirect_target
TextHopOk ==
    /\ proc_pc = "fetch_text"
    /\ \E action \in Answers(redirect_target.v), rest \in Answers(redirect_target.v) :
           FetchedBy("text", redirect_target.v, TryFetch(redirect_target.v, action, rest))
    /\ proc_pc' = "rewalk"
    /\ UNCHANGED <<proc_in, html_redirect_target, redirect_target, proc_text, walks,
                   proc_out, result, error>>
    /\ UNCHANGED <<tidy_vars, walk_vars, table_vars, smart_vars, lab_vars, far_vars>>

TextHopFail ==
    /\ proc_pc = "fetch_text"
    /\ \E action \in Answers(redirect_target.v), rest \in Answers(redirect_target.v) :
           FailedBy("text", redirect_target.v, TryFetch(redirect_target.v, action, rest))
    /\ error' = RedirectError(redirect_target.v)
    /\ UNCHANGED <<proc_in, proc_page, html_redirect_target, redirect_target, proc_text,
                   walks, proc_out, result>>
    /\ UNCHANGED <<tidy_vars, walk_vars, table_vars, smart_vars, lab_vars, far_vars>>

\* html_to_text on the page of the redirect target
Rewalk ==
    /\ proc_pc = "rewalk"
    /\ Walked
    /\ proc_pc' = AfterWalk(TRUE, redirect_target, title)
    /\ UNCHANGED <<proc_in, proc_page, html_redirect_target, redirect_target, fetches,
                   proc_out, result, error>>
    /\ UNCHANGED <<tidy_vars, walk_vars, table_vars, call_vars>>

\* text = ensure_labels_after_marker(text, title=actual_title, session=session)
Labels ==
    /\ proc_pc = "labels"
    /\ \E langlinks \in LangLinks : doc_text' = ensure_labels_after_marker(doc_text, langlinks)
    /\ proc_pc' = "check"
    /\ UNCHANGED <<proc_in, proc_page, html_redirect_target, redirect_target, assembled,
                   tidied, fetches, walks, proc_out, result, error>>
    /\ UNCHANGED <<tidy_vars, walk_vars, table_vars, call_vars>>

\* the check with the test of out_txt.exists() left out
CheckOverwrite ==
    /\ proc_pc = "check"
    /\ IF IsBlank(doc_text)
          THEN /\ error' = EmptyError(actual_title)
               /\ proc_pc' = "raised"
          ELSE /\ proc_pc' = "write"
               /\ UNCHANGED error
    /\ UNCHANGED <<proc_in, proc_page, html_redirect_target, redirect_target, proc_text,
                   fetches, walks, proc_out, result>>
    /\ UNCHANGED <<tidy_vars, walk_vars, table_vars, call_vars>>

\* the empty-text check, and the test of out_txt.exists()
Check ==
    /\ proc_pc = "check"
    /\ IF IsBlank(doc_text)
          THEN /\ error' = EmptyError(actual_title)
               /\ proc_pc' = "raised"
               /\ UNCHANGED result
       ELSE IF ~force /\ FinalName(actual_title) \in files
          THEN /\ result' = Result(actual_title, TRUE, ExistsStatus(redirect_target))
               /\ proc_pc' = "returned"
               /\ UNCHANGED error
          ELSE /\ proc_pc' = "write"
               /\ UNCHANGED <<result, error>>
    /\ UNCHANGED <<proc_in, proc_page, html_redirect_target, redirect_target, proc_text,
                   fetches, walks, proc_out>>
    /\ UNCHANGED <<tidy_vars, walk_vars, table_vars, call_vars>>

\* out_txt.write_text(text), the image records, the record of jsonl_file;
\* has_images: image_info is not empty; has_jsonl: jsonl_file is not None
Write ==
    /\ proc_pc = "write"
    /\ written' = Append(written, [file |-> FinalName(actual_title), text |-> doc_text])
    /\ files' = files \cup {FinalName(actual_title)}
    /\ \E has_images \in BOOLEAN : images' = images + (IF has_images THEN 1 ELSE 0)
    /\ \E has_jsonl \in BOOLEAN :
           jsonl' = IF has_jsonl
                       THEN Append(jsonl, Rec(title, actual_title, doc_text, redirect_target))
                       ELSE jsonl
    /\ result' = Result(actual_title, TRUE, Status(redirect_target))
    /\ proc_pc' = "returned"
    /\ UNCHANGED <<proc_in, proc_page, html_redirect_target, redirect_target, proc_text,
                   fetches, walks, error>>
    /\ UNCHANGED <<tidy_vars, walk_vars, table_vars, call_vars>>

ProcNext ==
    \/ Start \/ FetchOk \/ FetchFail \/ HtmlHopOk \/ HtmlHopFail \/ Walk
    \/ TextHopOk \/ TextHopFail \/ Rewalk \/ Labels \/ Check \/ Write

SpecProc == ProcInit /\ [][ProcNext]_vars

-----------------------------------------------------------------------------
(* Specification of smart_text: the loop over the children of a node, one  *)
(* child at a time                                                         *)

\* the children tried: "Jolin", "Tsai", ",T", 歌手, 身分, a blank text,
\* <b>Tsai</b>, <br>, <ol><li>x</li></ol>
SmartPool == {
    Txt(<<74, 111, 108, 105, 110>>), Txt(<<32, 84, 115, 97, 105>>), Txt(<<44, 84>>),
    Txt(<<27468, 25163>>), Txt(<<36523, 20998>>), Txt(<<32>>),
    El("b", <<Txt(<<84, 115, 97, 105>>)>>), El("br", <<>>),
    El("ol", <<El("li", <<Txt(<<120>>)>>)>>)}

MaxKids == 3

\* the nodes tried: a <p> of up to MaxKids children, and the lists themselves
SmartNodes ==
    {El("p", kids) : kids \in UNION {[1..n -> SmartPool] : n \in 0..MaxKids}}
    \cup {El(tag, <<El("li", <<Txt(<<120>>)>>), El("li", <<Txt(<<121>>)>>)>>) : tag \in {"ol", "ul"}}

SmartInit ==
    /\ smart_node \in SmartNodes
    /\ child_i = 0 /\ text_parts = <<>> /\ last_ascii = FALSE /\ smart_out = <<>>
    /\ smart_pc = "children"
    /\ TidyIdle /\ WalkIdle /\ TableIdle /\ ProcIdle /\ LabIdle /\ MoreIdle

\* `if node.name == "ol": return process_ordered_list(node)`, and "ul"
SmartList ==
    /\ smart_pc = "children"
    /\ smart_node.tag \in {"ol", "ul"}
    /\ smart_out' = smart_text(smart_node)
    /\ smart_pc' = "done"
    /\ UNCHANGED <<smart_node, child_i, text_parts, last_ascii>>
    /\ UNCHANGED <<tidy_vars, walk_vars, table_vars, proc_vars, lab_vars, more_vars>>

\* one iteration of `for child in node.children`
SmartChild ==
    /\ smart_pc = "children"
    /\ smart_node.tag \notin {"ol", "ul"}
    /\ child_i < Len(smart_node.kids)
    /\ \E acc \in {SmartKid(smart_node.kids[child_i + 1],
                             [parts |-> text_parts, last_ascii |-> last_ascii])} :
           /\ text_parts' = acc.parts
           /\ last_ascii' = acc.last_ascii
    /\ child_i' = child_i + 1
    /\ UNCHANGED <<smart_node, smart_out, smart_pc>>
    /\ UNCHANGED <<tidy_vars, walk_vars, table_vars, proc_vars, lab_vars, more_vars>>

\* `return "".join(text_parts)`
SmartReturn ==
    /\ smart_pc = "children"
    /\ smart_node.tag \notin {"ol", "ul"}
    /\ child_i = Len(smart_node.kids)
    /\ smart_out' = text_parts
    /\ smart_pc' = "done"
    /\ UNCHANGED <<smart_node, child_i, text_parts, last_ascii>>
    /\ UNCHANGED <<tidy_vars, walk_vars, table_vars, proc_vars, lab_vars, more_vars>>

SmartNext == SmartList \/ SmartChild \/ SmartReturn

SpecSmart == SmartInit /\ [][SmartNext]_vars

-----------------------------------------------------------------------------
(* Specification of fill_labels_if_missing: the matches of                 *)
(* _MISSING_AFTER_LABEL in the text of a paragraph one at a time, the two  *)
(* scans of _repl as steps                                                 *)

\* the pieces the paragraphs are made of:
\*   <a>英語</a>：Jia，     <a>英語</a>：，乙     英語：Jia，
\*   （英語：，乙）          藝名：，              <a>藝名</a>：丙<br>丁，
\*   <a>英語</a>：Jia
LabelPieces == {
    <<El("a", <<Txt(<<33521, 35486>>)>>), Txt(<<65306, 74, 105, 97>>)>>,
    <<El("a", <<Txt(<<33521, 35486>>)>>), Txt(<<65306, 74, 105, 97, 65292>>)>>,
    <<El("a", <<Txt(<<33521, 35486>>)>>), Txt(<<65306, 65292, 20057>>)>>,
    <<Txt(<<33521, 35486, 65306, 74, 105, 97, 65292>>)>>,
    <<Txt(<<65288, 33521, 35486, 65306, 65292, 20057, 65289>>)>>,
    <<Txt(<<34269, 21517, 65306, 65292>>)>>,
    <<El("a", <<Txt(<<34269, 21517>>)>>), Txt(<<65306, 19993>>), El("br", <<>>),
      Txt(<<19969, 65292>>)>>}

MaxPieces == 3

RECURSIVE Flat(_)
Flat(ls) == IF ls = <<>> THEN <<>> ELSE Head(ls) \o Flat(Tail(ls))

LabelParagraphs ==
    {El("p", Flat(ps)) : ps \in UNION {[1..n -> LabelPieces] : n \in 1..MaxPieces}}

\* the text of the long paragraphs: more than maxlen characters
LongLen == 130

\* <p>辛。</p>
PNext == El("p", <<Txt(<<36763, 12290>>)>>)
\* <p>aaa...a</p>
PLong == El("p", <<Txt([k \in 1..LongLen |-> 97])>>)

\* what follows the paragraph in the document: nothing, a short paragraph,
\* two long paragraphs and a short one
AfterBlocks == {<<>>, <<PNext>>, <<PLong, PLong, PNext>>}

\* the paragraph, its descendants and what follows them in document order,
\* as next_elements yields them: el is LabStream[1]
LabStream == Preorder(<<lab_el>> \o lab_after)

\* the call from the paragraph branch: txt = squeeze(smart_text(el))
FillInit ==
    /\ lab_el \in LabelParagraphs
    /\ lab_after \in AfterBlocks
    /\ lab_txt = squeeze(smart_text(lab_el))
    /\ lab_from = 1 /\ lab_out = <<>> /\ lab_m = NoMatch /\ lab_val = None /\ lab_log = <<>>
    /\ lab_pc = "search"
    /\ TidyIdle /\ WalkIdle /\ TableIdle /\ ProcIdle /\ SmartIdle /\ ApiIdle /\ HttpIdle
    /\ NoiseIdle /\ MainIdle

\* sub looks for the next match; without one the rest of the text is kept
LabSearch(found) ==
    /\ lab_pc = "search"
    /\ \E m \in {Search(MISSING_AFTER_LABEL, lab_txt, lab_from)} :
           /\ m.found = found
           /\ IF found
                 THEN /\ lab_out' = lab_out \o SubSeq(lab_txt, lab_from, m.st - 1)
                      /\ lab_m' = [st |-> m.st, e |-> m.e, label |-> m.c[1]]
                      /\ lab_pc' = "repl"
                      /\ UNCHANGED lab_from
                 ELSE /\ lab_out' = lab_out \o SubSeq(lab_txt, lab_from, Len(lab_txt))
                      /\ lab_from' = Len(lab_txt) + 1
                      /\ lab_pc' = "done"
                      /\ UNCHANGED lab_m
    /\ lab_val' = None
    /\ UNCHANGED <<lab_el, lab_txt, lab_log>>
    /\ UNCHANGED <<tidy_vars, walk_vars, table_vars, proc_vars, smart_vars, more_vars>>

FillMatch == LabSearch(TRUE)
FillNoMatch == LabSearch(FALSE)

\* `val = _collect_value_after_label(el, label)`
FillAnchor ==
    /\ lab_pc = "repl"
    /\ \E val \in {collect_value_after_label(LabStream, 1, lab_m.label)} :
           /\ lab_val' = val
           /\ lab_log' = Append(lab_log, [st |-> lab_m.st, call |-> "label", got |-> val])
           /\ lab_pc' = IF val.some THEN "return" ELSE "marker"
    /\ UNCHANGED <<lab_el, lab_txt, lab_from, lab_out, lab_m>>
    /\ UNCHANGED <<tidy_vars, walk_vars, table_vars, proc_vars, smart_vars, more_vars>>

\* `if not val: val = _collect_value_after_marker(el, f"{label}：")`
FillMarker ==
    /\ lab_pc = "marker"
    /\ \E val \in {collect_value_after_marker(LabStream, 1, lab_m.label \o <<65306>>)} :
           /\ lab_val' = val
           /\ lab_log' = Append(lab_log, [st |-> lab_m.st, call |-> "marker", got |-> val])
    /\ lab_pc' = "return"
    /\ UNCHANGED <<lab_el, lab_txt, lab_from, lab_out, lab_m>>
    /\ UNCHANGED <<tidy_vars, walk_vars, table_vars, proc_vars, smart_vars, more_vars>>

\* `return f"{label}：{val}" if val else m.group(0)`, and sub goes on after
\* the match
FillReturn ==
    /\ lab_pc = "return"
    /\ lab_out' = lab_out \o FillWith(lab_val, lab_m.label, SubSeq(lab_txt, lab_m.st, lab_m.e - 1))
    /\ lab_from' = lab_m.e
    /\ lab_pc' = "search"
    /\ UNCHANGED <<lab_el, lab_txt, lab_m, lab_val, lab_log>>
    /\ UNCHANGED <<tidy_vars, walk_vars, table_vars, proc_vars, smart_vars, more_vars>>

FillNext == FillMatch \/ FillNoMatch \/ FillAnchor \/ FillMarker \/ FillReturn

SpecFill == FillInit /\ [][FillNext]_vars

-----------------------------------------------------------------------------
(* Specification of ensure_labels_after_marker: the matches of             *)
(* _MISSING_AFTER_LABEL in the text of a document one at a time, the       *)
(* lookup of _fetch_langlink_title as a step                               *)

\* the pieces of the texts: 甲（英語：，乙）  藝名：，  日語：）  英語：Jia，
TextPieces == {
    <<30002, 65288, 33521, 35486, 65306, 65292, 20057, 65289>>,
    <<34269, 21517, 65306, 65292>>,
    <<26085, 35486, 65306, 65289>>,
    <<33521, 35486, 65306, 74, 105, 97, 65292>>}

LabelTexts == {Flat(ps) : ps \in UNION {[1..n -> TextPieces] : n \in 0..MaxPieces}}

\* what _fetch_langlink_title does: the request or the decoding raises (the
\* except clause makes it None), the answer has no langlink of the code
\* (None), the langlink has an empty name (""), or it has the name "Jia"
Lookups == {[how |-> "raise", name |-> None], [how |-> "none", name |-> None],
            [how |-> "empty", name |-> Val(<<>>)], [how |-> "name", name |-> Val(<<74, 105, 97>>)]}

EnsureInit ==
    /\ lab_txt \in LabelTexts
    /\ lab_el = El("p", <<>>)
    /\ lab_from = 1 /\ lab_out = <<>> /\ lab_m = NoMatch /\ lab_val = None /\ lab_log = <<>>
    /\ lab_pc = "search"
    /\ TidyIdle /\ WalkIdle /\ TableIdle /\ ProcIdle /\ SmartIdle /\ MoreIdle

EnsureMatch == LabSearch(TRUE)
EnsureNoMatch == LabSearch(FALSE)

\* `code = LABEL_LANG_MAP.get(label); if not code: return m.group(0)`
EnsureNoCode ==
    /\ lab_pc = "repl"
    /\ LangCode(lab_m.label) = ""
    /\ lab_pc' = "return"
    /\ UNCHANGED <<lab_el, lab_txt, lab_from, lab_out, lab_m, lab_val, lab_log>>
    /\ UNCHANGED <<tidy_vars, walk_vars, table_vars, proc_vars, smart_vars, more_vars>>

\* `name = _fetch_langlink_title(title, session, code)`
EnsureLookup ==
    /\ lab_pc = "repl"
    /\ LangCode(lab_m.label) # ""
    /\ \E got \in Lookups :
           /\ lab_val' = got.name
           /\ lab_log' = Append(lab_log, [st |-> lab_m.st, call |-> LangCode(lab_m.label),
                                          got |-> got])
    /\ lab_pc' = "return"
    /\ UNCHANGED <<lab_el, lab_txt, lab_from, lab_out, lab_m>>
    /\ UNCHANGED <<tidy_vars, walk_vars, table_vars, proc_vars, smart_vars, more_vars>>

\* `return f"{label}：{name}" if name else m.group(0)`
EnsureReturn ==
    /\ lab_pc = "return"
    /\ lab_out' = lab_out \o EnsureWith(lab_val, lab_m.label, SubSeq(lab_txt, lab_m.st, lab_m.e - 1))
    /\ lab_from' = lab_m.e
    /\ lab_pc' = "search"
    /\ UNCHANGED <<lab_el, lab_txt, lab_m, lab_val, lab_log>>
    /\ UNCHANGED <<tidy_vars, walk_vars, table_vars, proc_vars, smart_vars, more_vars>>

EnsureNext == EnsureMatch \/ EnsureNoMatch \/ EnsureNoCode \/ EnsureLookup \/ EnsureReturn

SpecEnsure == EnsureInit /\ [][EnsureNext]_vars

-----------------------------------------------------------------------------
(* Specification of http_get_with_backoff: the requests of one call, one   *)
(* iteration of the loop a step                                            *)

MaxRetries == 3

\* the values of backoff_base tried; 2 is the default
Bases == {2, 3}

\* session.get raised (a timeout, a refused connection)
RequestFailed == [status |-> 0, maxlag |-> FALSE, error |-> FALSE]

\* what session.get answers: a response with its status code and whether its
\* text holds "maxlag" and "error", or an exception
Responses ==
    {[status |-> 200, maxlag |-> FALSE, error |-> FALSE],
     [status |-> 200, maxlag |-> TRUE, error |-> FALSE],
     [status |-> 200, maxlag |-> TRUE, error |-> TRUE],
     [status |-> 404, maxlag |-> FALSE, error |-> FALSE],
     [status |-> 429, maxlag |-> FALSE, error |-> FALSE],
     [status |-> 503, maxlag |-> FALSE, error |-> TRUE],
     RequestFailed}

\* the exception the body of the try raises for the answer r, "none" when
\* it returns r
Raised(r) ==
    IF r = RequestFailed THEN "request"
    ELSE IF r.status \in {429, 503} THEN "busy"
    ELSE IF r.status = 200 /\ r.maxlag /\ r.error THEN "maxlag"
    ELSE IF r.status >= 400 /\ r.status < 600 THEN "status"
    ELSE "none"

\* a test that is true one iteration late
IsLastLate(i, retries) == i = retries + 1

\* `if i == retries: break`
IsLast(i, retries) == i = retries

RECURSIVE Pow(_, _)
Pow(b, n) == IF n = 0 THEN 1 ELSE b * Pow(b, n - 1)

\* the argument of time.sleep: backoff_base ** i
Wait(b, i) == Pow(b, i)

HttpInit ==
    /\ http_retries \in -1..MaxRetries /\ http_base \in Bases
    /\ http_i = 0 /\ http_log = <<>> /\ http_sleeps = <<>> /\ last_exc = "none"
    /\ http_out = NoResponse /\ http_pc = "get"
    /\ TidyIdle /\ WalkIdle /\ TableIdle /\ ProcIdle /\ SmartIdle /\ LabIdle
    /\ ApiIdle /\ lab_after = <<>> /\ NoiseIdle /\ MainIdle

\* an iteration whose request is answered by r
HttpGet(r) ==
    /\ http_pc = "get" /\ http_i <= http_retries
    /\ http_log' = Append(http_log, r)
    /\ UNCHANGED <<http_retries, http_base>>
    /\ UNCHANGED <<tidy_vars, walk_vars, table_vars, proc_vars, smart_vars, lab_vars, api_vars,
                   lab_after, noise_vars, main_vars>>

\* an iteration that returns the response
HttpReturn ==
    \E r \in Responses :
        /\ HttpGet(r) /\ Raised(r) = "none"
        /\ http_out' = r /\ http_pc' = "returned"
        /\ UNCHANGED <<http_i, http_sleeps, last_exc>>

\* an iteration that ends in the except clause and sleeps
HttpRetry ==
    \E r \in Responses :
        /\ HttpGet(r) /\ Raised(r) # "none" /\ ~IsLast(http_i, http_retries)
        /\ last_exc' = Raised(r)
        /\ http_sleeps' = Append(http_sleeps, Wait(http_base, http_i))
        /\ http_i' = http_i + 1
        /\ UNCHANGED <<http_out, http_pc>>

\* the iteration that ends in the except clause and leaves the loop
HttpBreak ==
    \E r \in Responses :
        /\ HttpGet(r) /\ Raised(r) # "none" /\ IsLast(http_i, http_retries)
        /\ last_exc' = Raised(r)
        /\ http_pc' = "raise"
        /\ UNCHANGED <<http_i, http_sleeps, http_out>>

\* after the loop, left by break or run to its end:
\* raise RuntimeError(f"GET failed for {url}: {last_exc}")
HttpRaise ==
    /\ http_pc = "raise" \/ (http_pc = "get" /\ http_i > http_retries)
    /\ http_pc' = "raised"
    /\ UNCHANGED <<http_retries, http_base, http_i, http_log, http_sleeps, last_exc, http_out>>
    /\ UNCHANGED <<tidy_vars, walk_vars, table_vars, proc_vars, smart_vars, lab_vars, api_vars,
                   lab_after, noise_vars, main_vars>>

HttpNext == HttpReturn \/ HttpRetry \/ HttpBreak \/ HttpRaise

SpecHttp == HttpInit /\ [][HttpNext]_vars

\* session.get returns or raises within its timeout, and time.sleep returns:
\* a call that can take a step takes one
SpecHttpLive == SpecHttp /\ WF_vars(HttpNext)

-----------------------------------------------------------------------------
(* Specification of the passes of html_to_text over the tree: the infobox   *)
(* scan, the three mutating loops, the collection of the elements, and     *)
(* then the walk                                                           *)

\* <table class="infobox"><tr><td class="infobox-image"><img></td></tr></table>
InfoboxBlock == ElC("table", {"infobox"},
                    <<El("tr", <<ElC("td", {"infobox-image"}, <<El("img", <<>>)>>)>>)>>)
\* <style>a</style>
StyleBlock == El("style", <<Txt(<<97>>)>>)
\* <table><tr><td><div class="mw-collapsible mw-collapsed"><ul><li>丙</li></ul></div></td></tr></table>
TableCollapsible ==
    El("table", <<El("tr", <<Cell("td", NoAttr, NoAttr,
        <<ElC("div", {"mw-collapsible", "mw-collapsed"}, <<UlBlock>>)>>)>>)>>)
\* <div class="mw-collapsible navbox-inner"><p>辛</p></div>
NavboxCollapsible == ElC("div", {"mw-collapsible", "navbox-inner"}, <<El("p", <<Txt(<<36763>>)>>)>>)

NoisePool == {InfoboxBlock, StyleBlock, TableCollapsible, NavboxCollapsible,
              PBlock, H2Kept, H3Block, DlBlock}

MaxNoisy == 2

NoiseDocs == {El("div", blocks) : blocks \in UNION {[1..n -> NoisePool] : n \in 0..MaxNoisy}}

Pass(op, by) == [op |-> op, by |-> by]

NoiseInit ==
    /\ root \in NoiseDocs
    /\ soup = root.kids /\ tree_log = <<>> /\ infoboxes = 0
    /\ elements = <<>> /\ stream = <<>> /\ el_i = 0
    /\ lines = <<>> /\ skipping = FALSE /\ processed_titles = {} /\ text = <<>>
    /\ walk_pc = "images"
    /\ TidyIdle /\ TableIdle /\ ProcIdle /\ SmartIdle /\ LabIdle
    /\ ApiIdle /\ HttpIdle /\ lab_after = <<>> /\ MainIdle

NoiseStep(to) ==
    /\ walk_pc' = to
    /\ UNCHANGED <<root, el_i, lines, skipping, processed_titles, text>>
    /\ UNCHANGED <<tidy_vars, table_vars, proc_vars, smart_vars, lab_vars, api_vars,
                   http_vars, lab_after, main_vars>>

\* `if images_dir and session:` extract_images_from_infoboxes reads the tree
Images ==
    /\ walk_pc = "images"
    /\ \E given \in BOOLEAN :
           IF given
              THEN /\ infoboxes' = Len(SelectInfoboxes(soup))
                   /\ tree_log' = Append(tree_log, Pass("read", "images"))
              ELSE UNCHANGED <<infoboxes, tree_log>>
    /\ UNCHANGED <<soup, elements, stream>>
    /\ NoiseStep("style")

\* for tag in soup.select("style, script, noscript"): tag.decompose()
Style ==
    /\ walk_pc = "style"
    /\ soup' = Decompose(soup, TRUE)
    /\ tree_log' = Append(tree_log, Pass("write", "style"))
    /\ UNCHANGED <<infoboxes, elements, stream>>
    /\ NoiseStep("selectors")

\* for sel in [...]: for tag in soup.select(sel): tag.decompose()
Selectors ==
    /\ walk_pc = "selectors"
    /\ soup' = Decompose(soup, FALSE)
    /\ tree_log' = Append(tree_log, Pass("write", "selectors"))
    /\ UNCHANGED <<infoboxes, elements, stream>>
    /\ NoiseStep("collapsible")

\* for collapsible in soup.select("div.mw-collapsible"): ...
Collapsible ==
    /\ walk_pc = "collapsible"
    /\ soup' = Uncollapse(soup, FALSE)
    /\ tree_log' = Append(tree_log, Pass("write", "collapsible"))
    /\ UNCHANGED <<infoboxes, elements, stream>>
    /\ NoiseStep("elements")

\* a collection that reads the tree as it was parsed
ElementsOfParsed ==
    /\ walk_pc = "elements"
    /\ elements' = FindAll(root.kids, WalkTags, <<>>)
    /\ stream' = Preorder(root.kids)
    /\ tree_log' = Append(tree_log, Pass("read", "elements"))
    /\ UNCHANGED <<infoboxes, soup>>
    /\ NoiseStep("walk")

\* root = ...; elements = root.find_all([...], recursive=True)
Elements ==
    /\ walk_pc = "elements"
    /\ elements' = FindAll(soup, WalkTags, <<>>)
    /\ stream' = Preorder(soup)
    /\ tree_log' = Append(tree_log, Pass("read", "elements"))
    /\ UNCHANGED <<infoboxes, soup>>
    /\ NoiseStep("walk")

NoiseNext ==
    \/ Images \/ Style \/ Selectors \/ Collapsible \/ Elements
    \/ StepH2 \/ StepH3 \/ StepP \/ StepList \/ StepDl \/ StepTable \/ Finish

SpecNoise == NoiseInit /\ [][NoiseNext]_vars

-----------------------------------------------------------------------------
(* Specification of main: the batch loop over the targets, with the files  *)
(* all_data.jsonl, _failures.jsonl and txt_dir.  process_one is one step:  *)
(* its answer from the network is an input                                 *)

\* a line of all_data.jsonl.  `kind` is "object" (a JSON object), "array"
\* (JSON, but no object), "malformed" (no JSON) or "blank"; `form` tells
\* json.dumps's own spelling ("plain") from another one ("escaped")
JsonLine(kind, obj, form) == [kind |-> kind, obj |-> obj, form |-> form]

\* json.dumps(obj, ensure_ascii=False) + "\n"
Dumps(obj) == JsonLine("object", obj, "plain")

\* any line is kept
KeptAny(line, t) == line.kind = "object"

\* `if line.strip():` json.loads(line) and obj.get("title") != title succeed
Kept(line, t) == line.kind = "object" /\ line.obj.title # t

\* the objects of lines
Objects(kept) == [i \in 1..Len(kept) |-> kept[i].obj]

\* the list all_jsonl read from the file, before the new record is added
AllJsonl(file, t) == Objects(SelectSeq(file, LAMBDA line : Kept(line, t)))

\* the file after `with all_data_jsonl.open("w")` wrote the list
WriteAll(objs) == [i \in 1..Len(objs) |-> Dumps(objs[i])]

\* the file after the new record is stored (src 1642-1662)
StoreRecord(file, forced, t, new_rec) ==
    IF forced THEN WriteAll(Append(AllJsonl(file, t), new_rec))
    ELSE Append(file, Dumps(new_rec))

\* the text of the page as fetched for the n-th target: "1", "2", ...; the
\* text stored by an earlier run is "0"
GenText(n) == <<48 + n>>
OldText == GenText(0)

\* the names of the files of a directory
Names(dir) == {f.file : f \in dir}

\* out_txt.write_text(text)
WriteText(dir, name, content) ==
    {f \in dir : f.file # name} \cup {[file |-> name, text |-> content]}

\* what the network answers for a title: no page, or the page of a final
\* title with or without text
MainTitles == {TitleA, TitleB}
MainAnswers ==
    {[ok |-> FALSE, title |-> <<>>, empty |-> FALSE]}
    \cup {[ok |-> TRUE, title |-> t, empty |-> e] : t \in MainTitles, e \in BOOLEAN}

\* process_one(raw, "title", ...): what it returns or that it raised, the
\* record it wrote to jsonl_file, and txt_dir afterwards
Outcome(raised, res, wrote, rec, dir) ==
    [raised |-> raised, result |-> res, wrote |-> wrote, rec |-> rec, txt |-> dir]

ProcessOne(raw, forced, dir, answer, gen) ==
    LET target == IF answer.title # raw THEN Val(answer.title) ELSE None
        none == Rec(raw, raw, <<>>, None)
    IN  IF ~forced /\ safe_filename(raw) \in Names(dir)
           THEN Outcome(FALSE, Result(raw, TRUE, "exists"), FALSE, none, dir)
        ELSE IF ~answer.ok \/ answer.empty
           THEN Outcome(TRUE, NoResult, FALSE, none, dir)
        ELSE IF ~forced /\ FinalName(answer.title) \in Names(dir)
           THEN Outcome(FALSE, Result(answer.title, TRUE, ExistsStatus(target)), FALSE, none, dir)
        ELSE Outcome(FALSE, Result(answer.title, TRUE, Status(target)), TRUE,
                     Rec(raw, answer.title, GenText(gen), target),
                     WriteText(dir, FinalName(answer.title), GenText(gen)))

\* `if new_rec and success and msg not in ["exists", "redirect_exists"]`
Stores(o) == o.wrote /\ o.result.ok /\ o.result.status \notin {"exists", "redirect_exists"}

\* the line of _failures.jsonl
Failure(raw) == [raw |-> raw, kind |-> "title"]

MaxTargets == 3

\* a record stored by an earlier run
OldRec(t) == Rec(t, t, OldText, None)

StoredFiles ==
    {<<>>,
     <<Dumps(OldRec(TitleA))>>,
     <<JsonLine("object", OldRec(TitleB), "escaped"), JsonLine("blank", OldRec(TitleB), "plain"),
       Dumps(OldRec(TitleA)), JsonLine("malformed", OldRec(TitleB), "plain"),
       JsonLine("array", OldRec(TitleB), "plain"), Dumps(OldRec(TitleA))>>}

MainInit ==
    /\ args_force \in BOOLEAN
    /\ all_targets \in UNION {[1..n -> MainTitles] : n \in 0..MaxTargets}
    /\ processed_count = 0 /\ handled = <<>> /\ tally = NoTally
    /\ all_data_jsonl \in StoredFiles
    /\ failures_log \in {<<>>, <<Failure(TitleB)>>}
    /\ txt_dir \in {{}, {[file |-> FinalName(TitleA), text |-> OldText]}}
    /\ main_pc = "loop" /\ inst = <<>>
    /\ TidyIdle /\ WalkIdle /\ TableIdle /\ ProcIdle /\ SmartIdle /\ LabIdle
    /\ ApiIdle /\ HttpIdle /\ lab_after = <<>> /\ NoiseIdle

\* the target of this iteration, and process_one's outcome for an answer
Raw == all_targets[processed_count + 1]
Now(answer) == ProcessOne(Raw, args_force, txt_dir, answer, processed_count + 1)

Iteration ==
    /\ main_pc = "loop"
    /\ processed_count < Len(all_targets)
    /\ processed_count' = processed_count + 1
    /\ handled' = Append(handled, Raw)
    /\ UNCHANGED <<args_force, all_targets, main_pc, inst>>
    /\ UNCHANGED <<tidy_vars, walk_vars, table_vars, proc_vars, smart_vars, lab_vars,
                   api_vars, http_vars, lab_after, noise_vars>>

\* a failure that is counted as skipped too
MainFailedTwice ==
    /\ Iteration
    /\ \E answer \in MainAnswers :
           /\ Now(answer).raised
           /\ txt_dir' = Now(answer).txt
    /\ tally' = [tally EXCEPT !.fail = @ + 1, !.skip = @ + 1]
    /\ failures_log' = Append(failures_log, Failure(Raw))
    /\ UNCHANGED all_data_jsonl

\* process_one wrote the text file: the record is stored, ok += 1
Stored ==
    /\ Iteration
    /\ \E answer \in MainAnswers :
           /\ ~Now(answer).raised /\ Stores(Now(answer))
           /\ txt_dir' = Now(answer).txt
           /\ all_data_jsonl' = StoreRecord(all_data_jsonl, args_force,
                                            Now(answer).result.title, Now(answer).rec)
    /\ tally' = [tally EXCEPT !.ok = @ + 1]
    /\ UNCHANGED failures_log

\* process_one returned "exists" or "redirect_exists": skip += 1
Skipped ==
    /\ Iteration
    /\ \E answer \in MainAnswers :
           /\ ~Now(answer).raised /\ ~Stores(Now(answer))
           /\ Now(answer).result.status \in {"exists", "redirect_exists"}
           /\ txt_dir' = Now(answer).txt
    /\ tally' = [tally EXCEPT !.skip = @ + 1]
    /\ UNCHANGED <<all_data_jsonl, failures_log>>

\* process_one raised: fail += 1 and a line of _failures.jsonl
MainFailed ==
    /\ Iteration
    /\ \E answer \in MainAnswers :
           /\ Now(answer).raised
           /\ txt_dir' = Now(answer).txt
    /\ tally' = [tally EXCEPT !.fail = @ + 1]
    /\ failures_log' = Append(failures_log, Failure(Raw))
    /\ UNCHANGED all_data_jsonl

\* the loop is over: the statistics are printed
MainEnd ==
    /\ main_pc = "loop"
    /\ processed_count = Len(all_targets)
    /\ main_pc' = "done"
    /\ UNCHANGED <<args_force, all_targets, processed_count, handled, tally, all_data_jsonl,
                   failures_log, txt_dir, inst>>
    /\ UNCHANGED <<tidy_vars, walk_vars, table_vars, proc_vars, smart_vars, lab_vars,
                   api_vars, http_vars, lab_after, noise_vars>>

MainNext == Stored \/ Skipped \/ MainFailed \/ MainEnd

SpecMain == MainInit /\ [][MainNext]_vars

\* the loop is a plain for loop: an iteration that can run does run
SpecMainLive == SpecMain /\ WF_vars(MainNext)

-----------------------------------------------------------------------------
(* Specification of two instances of the pipeline (process_one and the     *)
(* storing of its record by main) that work on two different titles into   *)
(* the same output directory, their steps interleaved.  The pages of the   *)
(* network are fixed: each title resolves to one final title               *)

\* the page of a title that resolves to `final`
PageOf(final) == [ok |-> TRUE, title |-> final, empty |-> FALSE]

\* the record process_one builds (src 1538-1551)
ParRec(r) == Rec(r.raw, r.final, GenText(1),
                 IF r.final # r.raw THEN Val(r.final) ELSE None)

Instance(raw, final) == [pc |-> "start", raw |-> raw, final |-> final, all_jsonl |-> <<>>]

ParInit ==
    /\ args_force \in BOOLEAN
    /\ all_data_jsonl \in StoredFiles
    /\ txt_dir \in {{}, {[file |-> FinalName(TitleA), text |-> OldText]}}
    /\ \E f1 \in MainTitles, f2 \in MainTitles :
           inst = [before |-> [data |-> all_data_jsonl, txt |-> txt_dir],
                   run |-> <<Instance(TitleA, f1), Instance(TitleB, f2)>>]
    /\ all_targets = <<>> /\ processed_count = 0 /\ handled = <<>> /\ tally = NoTally
    /\ failures_log = <<>> /\ main_pc = "par"
    /\ TidyIdle /\ WalkIdle /\ TableIdle /\ ProcIdle /\ SmartIdle /\ LabIdle
    /\ ApiIdle /\ HttpIdle /\ lab_after = <<>> /\ NoiseIdle

\* a step of an instance leaves the rest alone
ParStep ==
    /\ main_pc = "par"
    /\ UNCHANGED <<args_force, all_targets, processed_count, handled, tally, failures_log,
                   main_pc>>
    /\ UNCHANGED <<tidy_vars, walk_vars, table_vars, proc_vars, smart_vars, lab_vars,
                   api_vars, http_vars, lab_after, noise_vars>>

Moved(i, pc) == [inst EXCEPT !.run[i].pc = pc]

\* `if not force and requested_path.exists(): return title, True, "exists"`;
\* otherwise the page is fetched and converted, which touches no file
ParStart ==
    \E i \in 1..2 :
        /\ inst.run[i].pc = "start"
        /\ inst' = Moved(i, IF ~args_force /\ safe_filename(inst.run[i].raw) \in Names(txt_dir)
                               THEN "done" ELSE "check")
        /\ UNCHANGED <<txt_dir, all_data_jsonl>>
        /\ ParStep

\* `if not force and out_txt.exists(): return ...`
ParCheck ==
    \E i \in 1..2 :
        /\ inst.run[i].pc = "check"
        /\ inst' = Moved(i, IF ~args_force /\ FinalName(inst.run[i].final) \in Names(txt_dir)
                               THEN "done" ELSE "write")
        /\ UNCHANGED <<txt_dir, all_data_jsonl>>
        /\ ParStep

\* out_txt.write_text(text); the record goes to rec_io
ParWrite ==
    \E i \in 1..2 :
        /\ inst.run[i].pc = "write"
        /\ txt_dir' = WriteText(txt_dir, FinalName(inst.run[i].final), GenText(1))
        /\ inst' = Moved(i, "record")
        /\ UNCHANGED all_data_jsonl
        /\ ParStep

\* non-force mode: the record is appended
ParAppend ==
    \E i \in 1..2 :
        /\ inst.run[i].pc = "record"
        /\ ~args_force
        /\ all_data_jsonl' = Append(all_data_jsonl, Dumps(ParRec(inst.run[i])))
        /\ inst' = Moved(i, "done")
        /\ UNCHANGED txt_dir
        /\ ParStep

\* force mode: the file is read into all_jsonl
ParRead ==
    \E i \in 1..2 :
        /\ inst.run[i].pc = "record"
        /\ args_force
        /\ inst' = [inst EXCEPT !.run[i].pc = "rewrite",
                                !.run[i].all_jsonl = AllJsonl(all_data_jsonl, inst.run[i].final)]
        /\ UNCHANGED <<txt_dir, all_data_jsonl>>
        /\ ParStep

\* force mode: the list and the new record are written back
ParRewrite ==
    \E i \in 1..2 :
        /\ inst.run[i].pc = "rewrite"
        /\ all_data_jsonl' = WriteAll(Append(inst.run[i].all_jsonl, ParRec(inst.run[i])))
        /\ inst' = Moved(i, "done")
        /\ UNCHANGED txt_dir
        /\ ParStep

ParNext == ParStart \/ ParCheck \/ ParWrite \/ ParAppend \/ ParRead \/ ParRewrite

SpecPar == ParInit /\ [][ParNext]_vars

-----------------------------------------------------------------------------
(* Properties of the walk of html_to_text (SpecWalk)                       *)

\* the normalized title of the heading elements[k]
TitleAt(k) == norm_title(smart_text(elements[k].n))

\* the index of the last h2 among elements[1..k], 0 without one
LastH2(k) ==
    IF \E j \in 1..k : elements[j].n.tag = "h2"
       THEN CHOOSE j \in 1..k :
                elements[j].n.tag = "h2" /\ \A i \in (j + 1)..k : elements[i].n.tag # "h2"
       ELSE 0

\* elements[k] is an excluded h2 or lies in the section of one
InExcluded(k) == LastH2(k) > 0 /\ IsExcluded(TitleAt(LastH2(k)), ExcludeSections)

\* elements[k] lies in the section of an h2 that is not excluded
InKept(k) == LastH2(k) > 0 /\ ~IsExcluded(TitleAt(LastH2(k)), ExcludeSections)

\* the loop processes elements[el_i + 1]
Stepping == walk_pc = "walk" /\ el_i' = el_i + 1

\* the step has appended the h2 line of elements[el_i + 1] and a blank line
HeadingEmitted ==
    /\ Len(lines') >= Len(lines) + 2
    /\ lines'[Len(lines') - 1] = <<35, 35, 32>> \o TitleAt(el_i + 1)
    /\ lines'[Len(lines')] = <<>>

\* C1: from an excluded h2 up to the next h2, the heading and every h3,
\* paragraph, list, definition list and table leave the output lines as
\* they are.
C1_ExcludedSectionSilent ==
    [][Stepping /\ InExcluded(el_i + 1) => lines' = lines]_vars

\* a paragraph was emitted, then an excluded h2 and a paragraph after it
\* were processed, and the output still is the first paragraph alone
C1_Witness ==
    /\ el_i = 3
    /\ elements[1].n.tag = "p" /\ elements[3].n.tag = "p"
    /\ elements[2].n.tag = "h2" /\ InExcluded(2)
    /\ squeeze(smart_text(elements[3].n)) # <<>>
    /\ lines = <<squeeze(smart_text(elements[1].n))>> /\ lines # <<<<>>>>

\* C2 (amended): skipping is false before the first h2, each h2 sets it from
\* its own title alone, every other element leaves it as it is; a kept h2
\* that follows an excluded section has its heading emitted unless its title
\* is empty or was emitted before, and every paragraph with text in a kept
\* section is emitted.
C2_FlagFollowsH2 ==
    [][Stepping =>
        /\ skipping' = (IF elements[el_i + 1].n.tag = "h2"
                           THEN IsExcluded(TitleAt(el_i + 1), ExcludeSections)
                           ELSE skipping)
        /\ (LastH2(el_i) = 0 => ~skipping)
        /\ (elements[el_i + 1].n.tag = "h2" /\ InKept(el_i + 1) /\ InExcluded(el_i)
              => \/ TitleAt(el_i + 1) = <<>>
                 \/ HeadingKey(TitleAt(el_i + 1)) \in processed_titles
                 \/ HeadingEmitted)
        /\ (elements[el_i + 1].n.tag = "p" /\ InKept(el_i + 1)
            /\ squeeze(smart_text(elements[el_i + 1].n)) # <<>>
              => Len(lines') = Len(lines) + 1)]_vars

\* an excluded h2, a kept h2 and a paragraph were processed: the heading,
\* its blank line and the paragraph are the output
C2_Witness ==
    /\ el_i = 3
    /\ elements[1].n.tag = "h2" /\ InExcluded(1)
    /\ elements[2].n.tag = "h2" /\ InKept(2)
    /\ elements[3].n.tag = "p"
    /\ ~skipping
    /\ Len(lines) = 3 /\ lines[1] = <<35, 35, 32>> \o TitleAt(2) /\ lines[2] = <<>>

\* C2 as stated: a kept h2 that follows an excluded section has its heading
\* and all of its paragraphs (those with text) emitted.
C2_AsStated ==
    [][Stepping =>
        /\ (elements[el_i + 1].n.tag = "h2" /\ InKept(el_i + 1) /\ InExcluded(el_i)
              => HeadingEmitted)
        /\ (elements[el_i + 1].n.tag = "p" /\ InKept(el_i + 1)
            /\ squeeze(smart_text(elements[el_i + 1].n)) # <<>>
              => Len(lines') = Len(lines) + 1)]_vars

\* C3 as stated: in the text html_to_text returns, every "## " line has
\* exactly one blank line right before it and exactly one right after it.
C3_H2Framed ==
    walk_pc = "done" =>
        LET out == Split(text, 10)
        IN  \A k \in 1..Len(out) :
                StartsWith(out[k], <<35, 35, 32>>) =>
                    /\ k > 1 /\ out[k - 1] = <<>>
                    /\ (k > 2 => out[k - 2] # <<>>)
                    /\ k < Len(out) /\ out[k + 1] = <<>>
                    /\ (k + 2 <= Len(out) => out[k + 2] # <<>>)

-----------------------------------------------------------------------------
(* Properties of zh_tidy (SpecTidy)                                        *)

\* C8 as stated: zh_tidy(zh_tidy(t)) = zh_tidy(t) for every text t.
C8_Idempotent == tidy_pc = "twice" => tidy_twice = tidy_once

\* s with every newline dropped that comes after `most` newlines in a row
RECURSIVE AtMost(_, _, _)
AtMost(s, most, run) ==
    IF s = <<>> THEN <<>>
    ELSE IF Head(s) # 10 THEN <<Head(s)>> \o AtMost(Tail(s), most, 0)
    ELSE IF run >= most THEN AtMost(Tail(s), most, run)
    ELSE <<10>> \o AtMost(Tail(s), most, run + 1)

\* a text of letters "a" and newlines
IsLines(s) == \A k \in 1..Len(s) : s[k] \in {97, 10}

\* k newlines
Newlines(k) == [j \in 1..k |-> 10]

-----------------------------------------------------------------------------
(* Properties of table_to_lines (SpecTable)                                *)

\* the columns of an output line: what " | " separates after the bullet
OutCols(line) ==
    Split(Replace(SubSeq(line, 3, Len(line)), <<32, 124, 32>>, <<124>>), 124)

\* the columns of all output lines
Grid == [j \in 1..Len(table_lines) |-> OutCols(table_lines[j])]

\* the columns of row j of grid that hold txt
ColsOf(grid, j, txt) == {c \in 1..Len(grid[j]) : grid[j][c] = txt}

\* the rows of grid that hold txt
RowsOf(grid, txt) == {j \in 1..Len(grid) : ColsOf(grid, j, txt) # {}}

\* the smaller of two numbers
Min(a, b) == IF a < b THEN a ELSE b

\* the text of a cell with rowspan n in row r is in the rows r..r+n-1 of
\* grid, as far as there are rows, in one column, and in no other row
SpansRows(grid, txt, r, n, last) ==
    /\ RowsOf(grid, txt) = r..Min(r + n - 1, last)
    /\ \E c \in ColsOf(grid, r, txt) : \A j \in r..Min(r + n - 1, last) : ColsOf(grid, j, txt) = {c}

\* cell k of row r of the table, its text, its colspan and its rowspan
CellAt(r, k) == table.kids[r].kids[k]

TextOf(cell) == cell.kids[1].s

ColspanOf(cell) == parse_int(cell.at[1])

RowspanOf(cell) == parse_int(cell.at[2])

\* every row of the table has cells and every cell has text: every row gives
\* an output line, so that output row j is the row of <tr> j
Lettered ==
    \A r \in 1..Len(table.kids) :
        /\ table.kids[r].kids # <<>>
        /\ \A k \in 1..Len(table.kids[r].kids) : TextOf(CellAt(r, k)) # <<>>

\* C10: the text of a cell with rowspan N in row r is in the output rows
\* r..r+N-1, as far as the table has rows, in one and the same column, and
\* in no other row (tables in which every cell has text).
C10_RowspanRows ==
    table_pc = "done" /\ Lettered =>
        \E grid \in {Grid} :
            \A r \in 1..Len(table.kids) : \A k \in 1..Len(table.kids[r].kids) :
                SpansRows(grid, CellText(r, k), r, parse_int(table.kids[r].kids[k].at[2]),
                          Len(table.kids))

\* three rows; the second cell of row 1 has rowspan 2 and its text is in
\* the rows 1 and 2 and not in row 3
C10_Witness ==
    /\ table_pc = "done"
    /\ Len(table.kids) = 3 /\ Len(table.kids[1].kids) = 2
    /\ table.kids[1].kids[2].at[2] = Attr(2)
    /\ RowsOf(Grid, CellText(1, 2)) = {1, 2}

\* the column of txt in row j of grid
ColOf(grid, j, txt) == CHOOSE c \in ColsOf(grid, j, txt) : TRUE

\* cell k of row r, with colspan n: its text is in one column c of output
\* row r, the columns c+1..c+n-1 that the row has are empty, and the row
\* ends at c when no column with text follows (a later cell of the row may
\* be in a free column before c: the search starts at column 0 for each cell)
ColspanBlock(grid, r, k, n) ==
    /\ ColsOf(grid, r, CellText(r, k)) # {}
    /\ \E c \in {ColOf(grid, r, CellText(r, k))} :
           /\ ColsOf(grid, r, CellText(r, k)) = {c}
           /\ \A o \in 1..(n - 1) : c + o <= Len(grid[r]) => grid[r][c + o] = <<>>
           /\ (\A j \in (c + 1)..Len(grid[r]) : grid[r][j] = <<>>) => Len(grid[r]) = c

\* C11: a cell with colspan N gives one column with its text, followed by
\* N - 1 empty columns when a column with text follows in the row; the
\* empty columns at the end of a row are not in the output, so the last
\* cell of a row gives the column with its text alone.
C11_ColspanColumns ==
    table_pc = "done" /\ Lettered =>
        \E grid \in {Grid} :
            \A r \in 1..Len(table.kids) : \A k \in 1..Len(table.kids[r].kids) :
                ColspanBlock(grid, r, k, ColspanOf(CellAt(r, k)))

\* row 1 is a cell with colspan 2 and a second cell, row 2 is a cell and a
\* last cell with colspan 2
C11_Witness ==
    /\ table_pc = "done"
    /\ Len(table.kids) = 2
    /\ Len(table.kids[1].kids) = 2 /\ CellAt(1, 1).at = <<Attr(2), NoAttr>>
    /\ Len(table.kids[2].kids) = 2 /\ CellAt(2, 2).at = <<Attr(2), NoAttr>>
    /\ Grid = <<<<CellText(1, 1), <<>>, CellText(1, 2)>>, <<CellText(2, 1), CellText(2, 2)>>>>

\* C11 as the claim states it: the N - 1 empty columns follow the text of
\* the cell at every position, the last one of the row included
C11_AsStated ==
    table_pc = "done" /\ Lettered =>
        \E grid \in {Grid} :
            \A r \in 1..Len(table.kids) : \A k \in 1..Len(table.kids[r].kids) :
                /\ ColsOf(grid, r, CellText(r, k)) # {}
                /\ \A o \in 1..(ColspanOf(CellAt(r, k)) - 1) :
                       /\ ColOf(grid, r, CellText(r, k)) + o <= Len(grid[r])
                       /\ grid[r][ColOf(grid, r, CellText(r, k)) + o] = <<>>

\* no cell of the table has a colspan or a rowspan
Plain ==
    \A r \in 1..Len(table.kids) : \A k \in 1..Len(table.kids[r].kids) :
        CellAt(r, k).at = <<NoAttr, NoAttr>>

\* the cells of row r that have text, and the rows that have such a cell
TextCells(r) == {k \in 1..Len(table.kids[r].kids) : TextOf(CellAt(r, k)) # <<>>}

TextRows == {r \in 1..Len(table.kids) : TextCells(r) # {}}

\* the greatest member of a non-empty set of numbers
Greatest(set) == CHOOSE k \in set : \A o \in set : o <= k

\* the row of the j-th output line: the j-th row that has a cell with text
RowOfLine(j) == CHOOSE r \in TextRows : Cardinality({q \in TextRows : q <= r}) = j

\* C12: a table without colspan and rowspan gives one line per direct <tr>
\* that has a cell with text, in the order of the rows; the line has the
\* texts of the cells of the row up to the last cell with text, one column
\* per cell, so as many columns as cells when the last cell has text.
C12_PlainRows ==
    table_pc = "done" /\ Plain =>
        \E grid \in {Grid} :
            /\ Len(grid) = Cardinality(TextRows)
            /\ \A j \in 1..Len(grid) :
                   \E r \in {RowOfLine(j)} :
                       /\ Len(grid[j]) = Greatest(TextCells(r))
                       /\ \A k \in 1..Len(grid[j]) : grid[j][k] = TextOf(CellAt(r, k))

\* three rows: two cells with text, a row without text, a cell with text
\* before a cell without; the output is the lines of row 1 and row 3
C12_Witness ==
    /\ table_pc = "done" /\ Plain
    /\ Len(table.kids) = 3
    /\ TextCells(1) = {1, 2} /\ Len(table.kids[2].kids) = 2 /\ TextCells(2) = {}
    /\ Len(table.kids[3].kids) = 2 /\ TextCells(3) = {1}
    /\ Grid = <<<<CellText(1, 1), CellText(1, 2)>>, <<CellText(3, 1)>>>>

\* C12 as the claim states it: one line per direct <tr>, with as many
\* columns as the row has cells
C12_AsStated ==
    table_pc = "done" /\ Plain =>
        \E grid \in {Grid} :
            /\ Len(grid) = Len(table.kids)
            /\ \A r \in 1..Len(grid) : Len(grid[r]) = Len(table.kids[r].kids)

\* the cells <<q, o>> of the rows above row r whose rowspan reaches row r
Reaching(r) ==
    {p \in UNION {{<<q, o>> : o \in 1..Len(table.kids[q].kids)} : q \in 1..(r - 1)} :
        p[1] + RowspanOf(CellAt(p[1], p[2])) > r}

\* the columns that cell k of row r takes in grid
SpanOf(grid, r, k) ==
    {ColOf(grid, r, CellText(r, k)) + o : o \in 0..(ColspanOf(CellAt(r, k)) - 1)}

\* the columns of row r that are taken when cell k of the row is placed: by
\* a rowspan of a row above that reaches row r, or by a cell before k
Taken(grid, r, k) ==
    UNION ({SpanOf(grid, p[1], p[2]) : p \in Reaching(r)}
           \cup {SpanOf(grid, r, o) : o \in 1..(k - 1)})

\* all the columns of the colspan of cell k of row r are free from column c
IsFree(grid, r, k, c) ==
    \A o \in 0..(ColspanOf(CellAt(r, k)) - 1) : (c + o) \notin Taken(grid, r, k)

\* C13: each cell is at the lowest column from which all the columns of its
\* colspan are free in its row, and all the texts that the row holds (of its
\* own cells and of the rowspans that reach it) are in the output row.
C13_LowestFreeSlot ==
    table_pc = "done" /\ Lettered =>
        \E grid \in {Grid} :
            \A r \in 1..Len(table.kids) :
                /\ \A k \in 1..Len(table.kids[r].kids) :
                       /\ ColsOf(grid, r, CellText(r, k)) # {}
                       /\ IsFree(grid, r, k, ColOf(grid, r, CellText(r, k)))
                       /\ \A c \in 1..(ColOf(grid, r, CellText(r, k)) - 1) : ~IsFree(grid, r, k, c)
                /\ \A p \in Reaching(r) :
                       ColsOf(grid, r, CellText(p[1], p[2]))
                           = ColsOf(grid, p[1], CellText(p[1], p[2]))

\* row 1 is a cell and a cell with rowspan 2, row 2 is a cell with colspan
\* 2: column 1 is free and column 2 is not, the cell is at column 3
C13_Witness ==
    /\ table_pc = "done"
    /\ Len(table.kids) = 2
    /\ Len(table.kids[1].kids) = 2 /\ CellAt(1, 2).at = <<NoAttr, Attr(2)>>
    /\ Len(table.kids[2].kids) = 1 /\ CellAt(2, 1).at = <<Attr(2), NoAttr>>
    /\ Grid = <<<<CellText(1, 1), CellText(1, 2)>>, <<<<>>, CellText(1, 2), CellText(2, 1)>>>>

-----------------------------------------------------------------------------
(* Properties of process_one (SpecProc)                                    *)

\* the positions of the fetches of one hop
Hops(hop) == {k \in 1..Len(fetches) : fetches[k].hop = hop}

\* the empty-text check lies behind
PastCheck ==
    \/ proc_pc = "write" \/ written # <<>> \/ error.kind = "empty"
    \/ proc_pc = "returned" /\ walks > 0

\* the label fallback lies behind
PastLabels == proc_pc = "check" \/ PastCheck

\* the last html_to_text lies behind
PastWalks == proc_pc = "labels" \/ PastLabels

\* the text of the first run has a redirect marker whose target is not the
\* title requested
FollowsText == Truthy(redirect_target) /\ redirect_target.v # title

\* C4: a text without a non-blank character makes process_one raise the
\* empty-output error, and then no text file, image record or JSONL record
\* has been written.
C4_EmptyRaisesBeforeWrite ==
    /\ PastCheck => (Strip(doc_text) = <<>> <=> error.kind = "empty")
    /\ error.kind = "empty" =>
           /\ proc_pc = "raised" /\ error.about = actual_title
           /\ written = <<>> /\ jsonl = <<>> /\ images = 0

\* the re-run for a redirect target gave a blank text and the error was raised
C4_Witness ==
    /\ error.kind = "empty" /\ proc_pc = "raised"
    /\ walks = 2 /\ Strip(doc_text) = <<>>

C6_TextRedirectOnce ==
    /\ walks <= 2 /\ Len(written) <= 1 /\ Len(jsonl) <= 1
    /\ PastWalks =>
           /\ walks = (IF FollowsText THEN 2 ELSE 1)
           /\ Cardinality(Hops("text")) = (IF FollowsText THEN 1 ELSE 0)
           /\ FollowsText =>
                  fetches[Len(fetches)] = [hop |-> "text", title |-> redirect_target.v,
                                           ok |-> TRUE]
    /\ \A k \in 1..Len(written) : written[k].file = safe_filename(got_title)
    /\ \A k \in 1..Len(jsonl) :
           /\ jsonl[k].title = got_title
           /\ jsonl[k].out_file = safe_filename(got_title)

\* the marker named B, the fetch of B resolved to D, and the file and the
\* record carry D
C6_Witness ==
    /\ proc_pc = "returned" /\ walks = 2
    /\ redirect_target = Val(TitleB) /\ got_title = TitleD
    /\ fetches[Len(fetches)] = [hop |-> "text", title |-> TitleB, ok |-> TRUE]
    /\ written # <<>> /\ written[1].file = safe_filename(TitleD)
    /\ jsonl # <<>> /\ jsonl[1].title = TitleD

\* C7: when both fetches of a detected redirect target fail, process_one
\* raises an error that names the target, and no text file and no JSONL
\* record has been written.
C7_RedirectFetchFailure ==
    \A k \in 1..Len(fetches) :
        ~fetches[k].ok /\ fetches[k].hop # "first" =>
            /\ k = Len(fetches) /\ proc_pc = "raised"
            /\ fetches[k].title = (IF fetches[k].hop = "html" THEN html_redirect_target.v
                                                               ELSE redirect_target.v)
            /\ error.kind = "redirect_fetch" /\ error.about = fetches[k].title
            /\ written = <<>> /\ jsonl = <<>>

\* the fetch of the text-level target C failed after an HTML-level hop
C7_Witness ==
    /\ proc_pc = "raised" /\ Len(fetches) = 3
    /\ fetches[3] = [hop |-> "text", title |-> TitleC, ok |-> FALSE]
    /\ error.about = TitleC

-----------------------------------------------------------------------------
(* Properties of the lists and the headings in html_to_text (SpecLists,    *)
(* SpecWalk)                                                               *)

\* the <ol> nodes inside the node n
OlsIn(n) == {Preorder(n.kids)[k] : k \in {k \in 1..Len(Preorder(n.kids)) : Preorder(n.kids)[k].tag = "ol"}}

\* each direct <li> of the list ol that has text has its entry
\* "<index>. <item text>" in one of the lines `from`..`to` of ls
HasEntries(ol, ls, from, to) ==
    \E lis \in {Direct(ol.kids, {"li"})} :
        \A i \in 1..Len(lis) :
            extract_text_from_li(lis[i]) # <<>> =>
                \E j \in from..to :
                    Contains(ls[j], IntToStr(i) \o <<46, 32>> \o extract_text_from_li(lis[i]))

\* C15: an ordered list gives one entry "<index>. <item text>" per direct
\* <li> with text, the index being the position of the <li> among the
\* direct children, both for an <ol> inside a table cell (rendered inside the
\* text of the cell) and for an <ol> that the loop of html_to_text reaches
\* as an element of its own.
C15_OrderedEntries ==
    [][Stepping /\ ~skipping /\ ~HasParent(NextEl.anc, "table") =>
          /\ NextEl.n.tag = "table" =>
                 \A ol \in OlsIn(NextEl.n) :
                     HasEntries(ol, lines', Len(lines) + 1, Len(lines'))
          /\ NextEl.n.tag = "ol" =>
                 HasEntries(NextEl.n, lines', Len(lines) + 1, Len(lines'))]_vars

\* the part of C15 about an <ol> inside other content
C15_InsideCell ==
    [][Stepping /\ ~skipping /\ ~HasParent(NextEl.anc, "table") /\ NextEl.n.tag = "table" =>
          \A ol \in OlsIn(NextEl.n) :
              HasEntries(ol, lines', Len(lines) + 1, Len(lines'))]_vars

\* the number of places of s where w is
Occurrences(s, w) ==
    Cardinality({i \in 1..(Len(s) - Len(w) + 1) : SubSeq(s, i, i + Len(w) - 1) = w})

\* the lists among the elements that are inside an item of another list and
\* outside any table; each has one item, with the text NestedItem
NestedLists ==
    {k \in 1..Len(elements) :
        /\ elements[k].n.tag \in {"ul", "ol"}
        /\ HasParent(elements[k].anc, "li")
        /\ ~HasParent(elements[k].anc, "table")}

\* C16: the text of an item of a list nested inside an item of another
\* list is in the output of html_to_text exactly once per nested list: not
\* in the line of the enclosing item, only in the line of its own.
C16_NestedItemOnce ==
    walk_pc = "done" => Occurrences(text, NestedItem) = Cardinality(NestedLists)

\* the heading lines of the output: the lines that start with "##"
HeadingLines(out) ==
    SelectSeq(Split(out, 10), LAMBDA line : StartsWith(Strip(line), <<35, 35>>))

\* C20: no heading text is in the output of html_to_text twice.
C20_NoHeadingTwice ==
    walk_pc = "done" =>
        \E hs \in {HeadingLines(text)} :
            \A i \in 1..Len(hs) : \A j \in (i + 1)..Len(hs) :
                HeadingKey(hs[i]) # HeadingKey(hs[j])

\* the part of C20 about the headings the loop adds through
\* add_title_if_new: an h2 or h3 whose title is in processed_titles leaves
\* the lines as they are, and so does an h3 inside a table.multicol
C20_RepeatedH3Silent ==
    [][Stepping /\ NextEl.n.tag = "h3"
           /\ (TitleAt(el_i + 1) \in processed_titles
                  \/ HasParentC(NextEl.anc, "table", "multicol"))
          => lines' = lines]_vars

-----------------------------------------------------------------------------
(* Properties of smart_text (SpecSmart)                                    *)

\* an ASCII letter or digit
IsAlnum(c) == c \in (48..57) \cup (65..90) \cup (97..122)

\* the fragment that a child gives: the stripped text of a text node, the
\* smart_text of a tag that is not a list and not a <br>
FragmentOf(kid) ==
    IF kid.tag = "#text" THEN Strip(kid.s)
    ELSE IF kid.tag \in {"ol", "ul", "br"} THEN <<>>
    ELSE smart_text(kid)

\* the text with fragment s appended as the claim has it: one space before
\* s when the last character of the text and the first of s are both ASCII
\* letters or digits
JoinedAlnum(parts, s) ==
    parts \o (IF parts # <<>> /\ IsAlnum(parts[Len(parts)]) /\ IsAlnum(s[1]) THEN <<32>> ELSE <<>>)
          \o s

\* C14: when smart_text appends a text fragment, one space goes before it
\* if and only if the last character of the text so far and the first
\* character of the fragment are both ASCII letters or digits.
C14_SpaceIffAlnum ==
    [][SmartChild =>
          \E s \in {FragmentOf(smart_node.kids[child_i + 1])} :
              s # <<>> => text_parts' = JoinedAlnum(text_parts, s)]_vars

\* "Jolin" and "Tsai" give "Jolin Tsai", 歌手 and 身分 give 歌手身分
C14_Examples ==
    /\ smart_pc = "done" /\ smart_node.kids = <<Txt(<<74, 111, 108, 105, 110>>), Txt(<<32, 84, 115, 97, 105>>)>>
          => smart_out = <<74, 111, 108, 105, 110, 32, 84, 115, 97, 105>>
    /\ smart_pc = "done" /\ smart_node.kids = <<Txt(<<27468, 25163>>), Txt(<<36523, 20998>>)>>
          => smart_out = <<27468, 25163, 36523, 20998>>

-----------------------------------------------------------------------------
(* Properties of fill_labels_if_missing (SpecFill) and of                  *)
(* ensure_labels_after_marker (SpecEnsure)                                 *)

\* the entries of the log made for the match that starts at st
LogOf(st) == SelectSeq(lab_log, LAMBDA en : en.st = st)

\* the text matched
Matched == SubSeq(lab_txt, lab_m.st, lab_m.e - 1)

\* the scans _repl has made when it returns: the anchor scan alone when it
\* gave a value, else the anchor scan and then the marker scan; val is the
\* value of the first scan that gave one
ScansInOrder(v1, v2) ==
    /\ LogOf(lab_m.st) = (IF v1.some
                             THEN <<[st |-> lab_m.st, call |-> "label", got |-> v1]>>
                             ELSE <<[st |-> lab_m.st, call |-> "label", got |-> v1],
                                    [st |-> lab_m.st, call |-> "marker", got |-> v2]>>)
    /\ lab_val = (IF v1.some THEN v1 ELSE v2)

\* C17: for each label without value, fill_labels_if_missing makes the
\* anchor scan first and the marker scan only when the anchor scan gave no
\* value; the first scan that gives a value supplies "<label>：<value>", and
\* when neither gives one the matched text stays as it was; the function
\* always comes to its end.
C17_AnchorThenMarker ==
    /\ [](lab_pc = "return" =>
              ScansInOrder(collect_value_after_label(LabStream, 1, lab_m.label),
                           collect_value_after_marker(LabStream, 1, lab_m.label \o <<65306>>)))
    /\ [][lab_pc = "return" =>
              lab_out' = lab_out \o (IF lab_val.some THEN lab_m.label \o <<65306>> \o lab_val.v
                                                      ELSE Matched)]_vars
    /\ [](lab_pc \in {"search", "repl", "marker", "return", "done"})

\* <a>英語</a>：Jia，（英語：，乙）藝名：， : the anchor scan fills the first
\* label without value, neither scan has a value for the second
C17_Witness ==
    /\ lab_pc = "done"
    /\ Len(lab_el.kids) = 4
    /\ Len(lab_log) = 3
    /\ lab_log[1].call = "label" /\ lab_log[1].got = Val(<<74, 105, 97>>)
    /\ lab_log[2].call = "label" /\ lab_log[2].got = None
    /\ lab_log[3].call = "marker" /\ lab_log[3].got = None
    /\ lab_out = <<33521, 35486, 65306, 74, 105, 97, 65292, 65288, 33521, 35486, 65306, 74, 105, 97,
                   65292, 20057, 65289, 34269, 21517, 65306, 65292>>

\* the marker scan fills a label after the anchor scan gave no value
C17_MarkerWitness ==
    /\ lab_pc = "done"
    /\ \E k \in 1..(Len(lab_log) - 1) :
           /\ lab_log[k].call = "label" /\ ~lab_log[k].got.some
           /\ lab_log[k + 1].call = "marker" /\ lab_log[k + 1].got.some
    /\ lab_out # lab_txt

\* the starts of the matches of _MISSING_AFTER_LABEL in the text, and the
\* label matched at one
MatchStarts == {i \in 1..Len(lab_txt) : M(MISSING_AFTER_LABEL, lab_txt, i) # <<>>}

LabelAt(i) == M(MISSING_AFTER_LABEL, lab_txt, i)[1].c[1]

\* the matches with a label that LABEL_LANG_MAP has
\* LABEL_LANG_MAP has the label, with the code
InLangMap(label, code) ==
    \E k \in 1..Len(LABEL_LANG_MAP) : LABEL_LANG_MAP[k] = <<label, code>>

Mapped(starts) ==
    {i \in starts : /\ M(MISSING_AFTER_LABEL, lab_txt, i) # <<>>
                    /\ \E code \in LangCodes : InLangMap(LabelAt(i), code)}

\* C18: ensure_labels_after_marker asks the language-link service only for
\* the labels without value that LABEL_LANG_MAP has, once each, for the code
\* of the label; when the lookup fails or gives no name the matched text
\* stays as it was, and the function goes on to its end.
C18_OnlyMappedLookups ==
    /\ [](lab_pc = "return" /\ lab_log # <<>> /\ lab_log[Len(lab_log)].st = lab_m.st =>
              /\ lab_m.st \in Mapped({lab_m.st})
              /\ InLangMap(LabelAt(lab_m.st), lab_log[Len(lab_log)].call)
              /\ \A j \in 1..(Len(lab_log) - 1) : lab_log[j].st < lab_m.st)
    /\ [](lab_pc = "done" =>
              /\ {lab_log[k].st : k \in 1..Len(lab_log)} = Mapped(MatchStarts)
              /\ (\A k \in 1..Len(lab_log) : lab_log[k].got.how # "name") => lab_out = lab_txt)
    /\ [][lab_pc = "return" /\ ~(lab_val.some /\ lab_val.v # <<>>) =>
              lab_out' = lab_out \o Matched /\ lab_pc' = "search"]_vars

\* 甲（英語：，乙）藝名：，日語：） : the lookup for 英語 raises, there is none
\* for 藝名, the lookup for 日語 gives no name; the text is as it was
C18_Witness ==
    /\ lab_pc = "done"
    /\ lab_txt = <<30002, 65288, 33521, 35486, 65306, 65292, 20057, 65289, 34269, 21517, 65306, 65292,
                   26085, 35486, 65306, 65289>>
    /\ Len(lab_log) = 2
    /\ lab_log[1].call = "en" /\ lab_log[1].got.how = "raise"
    /\ lab_log[2].call = "ja" /\ lab_log[2].got.how = "none"
    /\ lab_out = lab_txt

-----------------------------------------------------------------------------
(* process_one: the output files                                           *)

\* a step of process_one that writes a text file
Writes == written' # written

\* a step that returns
Returns == proc_pc # "returned" /\ proc_pc' = "returned"

\* C21: without force an existing text file is never overwritten: when the
\* file of the requested title exists process_one returns "exists" with no
\* fetch and no write, and when the file of the final title exists it
\* returns without a write of the file and without a JSONL record.
C21_ExistingFileKept ==
    /\ [][~force /\ Writes => written'[Len(written')].file \notin files]_vars
    /\ [][~force /\ proc_pc = "start" /\ safe_filename(title) \in files =>
              /\ Returns /\ result' = [title |-> title, ok |-> TRUE, status |-> "exists"]
              /\ fetches' = <<>> /\ walks' = 0
              /\ written' = <<>> /\ jsonl' = <<>> /\ images' = 0 /\ files' = files]_vars
    /\ [][~force /\ Returns /\ safe_filename(actual_title) \in files =>
              /\ result'.status \in {"exists", "redirect_exists"}
              /\ written' = <<>> /\ jsonl' = <<>> /\ files' = files]_vars

\* the file of the requested title is missing, the page resolved to a title
\* whose file exists, and process_one returned after its fetch and its walk
C21_Witness ==
    /\ ~force /\ proc_pc = "returned" /\ result.status = "exists"
    /\ fetches # <<>> /\ walks > 0
    /\ safe_filename(title) \notin files /\ safe_filename(actual_title) \in files
    /\ written = <<>> /\ jsonl = <<>>

-----------------------------------------------------------------------------
(* Properties of http_get_with_backoff (SpecHttp, SpecHttpLive)            *)

\* the answers the loop does not return: a 429 or 503, a 200 whose text
\* holds "maxlag" and "error", any other 4xx or 5xx, no answer at all
Refused(r) ==
    \/ r.status \in {0, 429, 503} \/ r.status \in 400..599
    \/ r.status = 200 /\ r.maxlag /\ r.error

HttpEnded == http_pc \in {"returned", "raised"}

\* C26: http_get_with_backoff ends after at most retries + 1 requests: it
\* returns the first answer that is not refused and makes no request after
\* it, and it raises once the last attempt has failed, with no sleep after
\* that attempt.
C26_EndsWithinRetries ==
    /\ <>HttpEnded
    /\ [](/\ Len(http_log) <= http_retries + 1
          /\ Len(http_sleeps) <= Len(http_log)
          /\ http_sleeps # <<>> => Len(http_sleeps) <= http_retries
          /\ \A k \in 1..(Len(http_log) - 1) : Refused(http_log[k])
          /\ http_pc = "returned" =>
                 /\ ~Refused(http_log[Len(http_log)])
                 /\ http_out = http_log[Len(http_log)]
          /\ http_pc = "raised" =>
                 /\ Len(http_log) = http_retries + 1
                 /\ \A k \in 1..Len(http_log) : Refused(http_log[k])
                 /\ http_log # <<>> => Len(http_sleeps) = Len(http_log) - 1)
    /\ [][~HttpEnded]_vars

\* three refused answers were followed by sleeps, the fourth was the last
\* attempt and the call raised
C26_Witness ==
    /\ http_pc = "raised" /\ http_retries = 3
    /\ Len(http_log) = 4 /\ Len(http_sleeps) = 3 /\ last_exc = "busy"

\* the second answer was returned though two retries were left
C26_ReturnWitness ==
    /\ http_pc = "returned" /\ http_retries = 3 /\ Len(http_log) = 2
    /\ http_out = [status |-> 200, maxlag |-> TRUE, error |-> FALSE]

\* C27: with backoff_base 2 the waits before the first, second and third
\* retry are 2, 4 and 8 seconds.
C27_Waits248 ==
    http_base = 2 =>
        \A k \in 1..Len(http_sleeps) : http_sleeps[k] = 2 ^ k

\* the calls of one API
CallsOf(api) == {k \in 1..Len(api_calls) : api_calls[k].api = api}

\* the k-th call is a call of fetch_html_rest that directly follows a call of
\* fetch_html_action for the same title that raised
AfterActionRaised(k) ==
    /\ k > 1
    /\ api_calls[k - 1].api = "action" /\ ~api_calls[k - 1].ok
    /\ api_calls[k - 1].title = api_calls[k].title

\* the titles process_one fetches, in order
FetchedTitles == [k \in 1..Len(fetches) |-> fetches[k].title]

\* the titles fetch_html_action is called for, in order
ActionTitles ==
    [k \in 1..Cardinality(CallsOf("action")) |->
        api_calls[CHOOSE j \in CallsOf("action") :
                     Cardinality({q \in CallsOf("action") : q <= j}) = k].title]

\* a step that fetches a page
Fetches == api_calls' # api_calls

C28_BothFail == error.kind = "fetch" /\ Len(api_calls) = 2 /\ proc_pc = "raised"

-----------------------------------------------------------------------------
(* Properties of the two scans of fill_labels_if_missing (SpecFill)        *)

\* the scans that gave a value
Values == {k \in 1..Len(lab_log) : lab_log[k].got.some}

\* the texts of the text nodes stream[j..] in document order, up to the
\* first <br> when at_br
RECURSIVE FlowFrom(_, _, _)
FlowFrom(nodes, j, at_br) ==
    IF j > Len(nodes) THEN <<>>
    ELSE IF nodes[j].tag = "#text" THEN nodes[j].s \o FlowFrom(nodes, j + 1, at_br)
    ELSE IF at_br /\ nodes[j].tag = "br" THEN <<>>
    ELSE FlowFrom(nodes, j + 1, at_br)

\* s up to its first stop character
UpToStop(s) ==
    IF \E k \in 1..Len(s) : s[k] \in STOP_CHARS
       THEN SubSeq(s, 1, (CHOOSE k \in 1..Len(s) :
                             s[k] \in STOP_CHARS /\ \A j \in 1..(k - 1) : s[j] \notin STOP_CHARS) - 1)
       ELSE s

\* s without its whitespace
Unspaced(s) == SelectSeq(s, LAMBDA c : c \notin WS)

IsPrefix(a, b) == Len(a) <= Len(b) /\ SubSeq(b, 1, Len(a)) = a

\* the positions of the nodes of the paragraph in LabStream, el itself left out
InParagraph == 2..Size(lab_el)

\* the label of the match at position st of lab_txt
LabelOf(st) == M(MISSING_AFTER_LABEL, lab_txt, st)[1].c[1]

\* the anchor of the first scan: the first node of the paragraph whose text
\* is the label
AnchorOf(label) ==
    CHOOSE k \in InParagraph :
        /\ GetText(LabStream[k]) = label
        /\ \A j \in InParagraph : j < k => GetText(LabStream[j]) # label

\* the text nodes after the anchor that hold a colon, no <br> between
ColonNodes(a) ==
    {j \in (a + 1)..Len(LabStream) :
        /\ LabStream[j].tag = "#text"
        /\ \E k \in 1..Len(LabStream[j].s) : LabStream[j].s[k] \in {65306, 58}
        /\ \A q \in (a + 1)..(j - 1) : LabStream[q].tag # "br"}

\* where the colon of s is: its first full-width colon, else its first colon
ColonAt(s) ==
    CHOOSE k \in 1..Len(s) :
        /\ s[k] = (IF \E j \in 1..Len(s) : s[j] = 65306 THEN 65306 ELSE 58)
        /\ \A j \in 1..(k - 1) : s[j] # s[k]

\* the text the first scan reads for a label: what follows the first colon
\* after the anchor, up to the first <br>
AnchorFlow(label) ==
    LET j == CHOOSE j \in ColonNodes(AnchorOf(label)) :
                 \A q \in ColonNodes(AnchorOf(label)) : j <= q
    IN  SubSeq(LabStream[j].s, ColonAt(LabStream[j].s) + 1, Len(LabStream[j].s))
            \o FlowFrom(LabStream, j + 1, TRUE)

\* the needle of the second scan: the first text node of the paragraph that
\* holds the marker
NeedleOf(marker) ==
    CHOOSE k \in InParagraph :
        /\ LabStream[k].tag = "#text" /\ Contains(LabStream[k].s, marker)
        /\ \A j \in InParagraph :
               j < k => ~(LabStream[j].tag = "#text" /\ Contains(LabStream[j].s, marker))

\* the text the second scan reads: what follows the first marker of the
\* needle
MarkerFlow(marker) ==
    LET s == LabStream[NeedleOf(marker)].s
        o == CHOOSE i \in 1..Len(s) :
                 /\ SubSeq(s, i, i + Len(marker) - 1) = marker
                 /\ \A j \in 1..(i - 1) : SubSeq(s, j, j + Len(marker) - 1) # marker
    IN  SubSeq(s, o + Len(marker), Len(s)) \o FlowFrom(LabStream, NeedleOf(marker) + 1, FALSE)

\* the text the scan of a log entry reads
FlowOf(en) ==
    IF en.call = "label" THEN AnchorFlow(LabelOf(en.st))
    ELSE MarkerFlow(LabelOf(en.st) \o <<65306>>)

\* C24: a value collected by _collect_value_after_label or by
\* _collect_value_after_marker holds no stop character, holds nothing of the
\* text that lies after the first stop character the scan meets (or, for the
\* first scan, after a <br>), and has at most maxlen (120) characters.
C24_ValueStopsAndCapped ==
    \A k \in Values :
        /\ \A j \in 1..Len(lab_log[k].got.v) : lab_log[k].got.v[j] \notin STOP_CHARS
        /\ IsPrefix(Unspaced(lab_log[k].got.v), Unspaced(UpToStop(FlowOf(lab_log[k]))))
        /\ Len(lab_log[k].got.v) <= MaxLen
        /\ lab_log[k].got.v # <<>>

\* the first scan ran on into two long paragraphs and its value was cut to
\* maxlen characters
C24_Witness ==
    \E k \in Values :
        /\ lab_log[k].call = "label"
        /\ Len(lab_log[k].got.v) = MaxLen
        /\ Len(Unspaced(UpToStop(FlowOf(lab_log[k])))) > MaxLen

\* the first scan stopped at a <br> with text behind it
C24_BrWitness ==
    \E k \in Values :
        /\ lab_log[k].call = "label"
        /\ lab_log[k].got.v = <<19993>>
        /\ UpToStop(FlowOf(lab_log[k])) = <<19993>>

\* the second scan stopped at a stop character with text behind it
C24_StopWitness ==
    \E k \in Values :
        /\ lab_log[k].call = "marker"
        /\ Len(UpToStop(FlowOf(lab_log[k]))) < Len(FlowOf(lab_log[k])) - 1

\* the text of the paragraph that follows the match at position st, up to
\* its first stop character
OwnText(st) ==
    UpToStop(SubSeq(lab_txt, M(MISSING_AFTER_LABEL, lab_txt, st)[1].e, Len(lab_txt)))

\* the text of the text nodes of the paragraph, whitespace left out
ParagraphText == Unspaced(FlowFrom(SubSeq(LabStream, 1, Size(lab_el)), 2, FALSE))

\* C25: the value fill_labels_if_missing puts after a label without a value
\* is made of text nodes of the paragraph only, and it is the text that
\* follows that occurrence of the label, never text of a later block or the
\* value of another occurrence of the label.
C25_OwnValue ==
    \A k \in Values :
        /\ IsPrefix(Unspaced(lab_log[k].got.v), Unspaced(OwnText(lab_log[k].st)))
        /\ Contains(ParagraphText, Unspaced(lab_log[k].got.v))

\* the values hold no text of a block after the paragraph
C25_InsideParagraph ==
    \A k \in Values : Contains(ParagraphText, Unspaced(lab_log[k].got.v))

-----------------------------------------------------------------------------
(* Properties of the passes of html_to_text over the tree (SpecNoise)      *)

Reads == {i \in 1..Len(tree_log) : tree_log[i].op = "read"}
Mutations == {i \in 1..Len(tree_log) : tree_log[i].op = "write"}
Collected == walk_pc \in {"walk", "done"}

-----------------------------------------------------------------------------
(* Properties of main (SpecMain, SpecMainLive)                             *)

\* the step stores a record: main counted a success
Storing == tally'.ok = tally.ok + 1

\* the record the iteration just made: it answers the target just handled
\* and carries the text fetched in this iteration
IsNew(line) ==
    /\ line = Dumps(line.obj)
    /\ line.obj.original_query = all_targets[processed_count]
    /\ line.obj.text = GenText(processed_count)

\* the objects of a file that json.loads reads as objects with another title
OtherObjects(file, t) ==
    Objects(SelectSeq(file, LAMBDA line : line.kind = "object" /\ line.obj.title # t))

TitledLines(file, t) ==
    {i \in 1..Len(file) : file[i].kind = "object" /\ file[i].obj.title = t}

\* C29: storing the record of a target resolved to T, in force mode, leaves
\* exactly one record titled T in all_data.jsonl, the new one, as the last
\* line, and the records with other titles as they were and in their order;
\* in non-force mode the file is the old file with the new record appended
C29_OneRecordPerTitle ==
    [][Storing =>
        \E n \in {Len(all_data_jsonl')} :
            /\ n > 0
            /\ IsNew(all_data_jsonl[n])'
            /\ IF args_force
                  THEN \E t \in {all_data_jsonl'[n].obj.title} :
                         /\ TitledLines(all_data_jsonl', t) = {n}
                         /\ OtherObjects(all_data_jsonl', t) = OtherObjects(all_data_jsonl, t)
                  ELSE /\ n = Len(all_data_jsonl) + 1
                       /\ SubSeq(all_data_jsonl', 1, n - 1) = all_data_jsonl]_vars

\* force mode: an older record of title A was replaced, the record of
\* title B kept before it
C29_Witness ==
    /\ args_force
    /\ tally.ok = 1 /\ processed_count = 1
    /\ Len(all_data_jsonl) = 2
    /\ all_data_jsonl[1] = Dumps(OldRec(TitleB))
    /\ all_data_jsonl[2].obj.title = TitleA
    /\ all_data_jsonl[2].obj.text = GenText(1)

\* non-force mode: the record was appended to a file of six lines
C29_AppendWitness ==
    /\ ~args_force
    /\ tally.ok = 1
    /\ Len(all_data_jsonl) = 7
    /\ all_data_jsonl[7].obj.title = TitleB

Sum(c) == c.ok + c.skip + c.fail

\* C30: the targets are handed to process_one one by one in their order,
\* each once; after each iteration ok + skip + fail is the number of targets
\* processed; an iteration increments exactly one counter; it appends one
\* line for its target to _failures.jsonl if it fails and none otherwise;
\* and the loop ends after the last target
C30_EveryTargetOnce ==
    /\ [](/\ processed_count <= Len(all_targets)
          /\ handled = SubSeq(all_targets, 1, processed_count)
          /\ Sum(tally) = processed_count
          /\ (main_pc = "done" => processed_count = Len(all_targets)))
    /\ [][processed_count' # processed_count =>
            /\ processed_count' = processed_count + 1
            /\ \E c \in {"ok", "skip", "fail"} : tally' = [tally EXCEPT ![c] = @ + 1]
            /\ IF tally'.fail # tally.fail
                  THEN failures_log' = Append(failures_log, Failure(all_targets[processed_count']))
                  ELSE failures_log' = failures_log]_vars
    /\ [][processed_count' = processed_count => tally' = tally /\ failures_log' = failures_log]_vars
    /\ <>(main_pc = "done")

\* the second of three targets failed, the third was processed all the same
C30_Witness ==
    /\ main_pc = "done"
    /\ processed_count = 3
    /\ tally = [ok |-> 1, skip |-> 1, fail |-> 1]
    /\ Len(failures_log) = 1
    /\ failures_log[1] = Failure(all_targets[2])

-----------------------------------------------------------------------------
(* Properties of two instances side by side (SpecPar)                      *)

\* the files after one instance ran alone from the files `fs`
AfterAlone(fs, r, forced) ==
    LET o == ProcessOne(r.raw, forced, fs.txt, PageOf(r.final), 1)
    IN  [data |-> IF Stores(o) THEN StoreRecord(fs.data, forced, o.result.title, o.rec)
                  ELSE fs.data,
         txt |-> o.txt]

\* the files after the instances ran one after the other, first a then b
OneAfterTheOther(a, b) ==
    AfterAlone(AfterAlone(inst.before, inst.run[a], args_force), inst.run[b], args_force)

ParDone == main_pc = "par" /\ \A i \in 1..2 : inst.run[i].pc = "done"

\* C23: when both instances are done, the text files and the records of
\* all_data.jsonl are those of one of the two sequential runs
C23_AsSequential ==
    ParDone =>
        \E order \in {<<1, 2>>, <<2, 1>>} :
            \E fs \in {OneAfterTheOther(order[1], order[2])} :
                /\ txt_dir = fs.txt
                /\ Objects(all_data_jsonl) = Objects(fs.data)

\* non-force mode and two different final titles: the runs agree with a
\* sequential one
C23_Agrees ==
    /\ ParDone
    /\ ~args_force
    /\ inst.run[1].final # inst.run[2].final
    /\ Len(all_data_jsonl) = Len(inst.before.data) + 2

====
